---- MODULE Spec2Model ----
(***************************************************************************)
(* Connection pool of edgedb-python (edgedb/base_client.py): BaseConnection,*)
(* PoolConnectionHolder and BasePoolImpl, driven by cooperative callers.    *)
(* A caller step runs from one await to the next, as on an asyncio loop.    *)
(***************************************************************************)
EXTENDS Naturals, Integers, Sequences, FiniteSets, TLC

\* ------------------------------------------------------------------ bounds
MaxTasks == 3
MaxConcurrency == 2
MaxCons == 3
MaxGen == 2

Tasks == 1..MaxTasks
Repeaters == {1}   \* the callers that may call Pool.release twice for one connection
Holders == 1..MaxConcurrency
Cons == 1..MaxCons
NoCon == 0
NoHolder == 0
NoGen == -1
NoCall == <<0, "none", "none">>
ForeignCon == MaxCons + 1        \* a connection checked out of another pool
ForeignHolder == MaxConcurrency + 1   \* its holder, whose _pool is the other pool
MaxXacts == 3
MaxArgs == 1      \* the calls of set_connect_args
Xacts == 1..MaxXacts
XactPair == 1..(MaxXacts - 1)
NoXact == 0
NoId == 0
ISOLATION_LEVELS == {"serializable", "repeatable_read"}
Isolations == {"unset"} \cup ISOLATION_LEVELS   \* "unset" is None
Tri == {"unset", "true", "false"}                \* "unset" is None
Outcomes == {"ok", "QueryError", "CancelledError"}   \* of privileged_execute
NoXCall == [x |-> NoXact, op |-> "none", err |-> "none", msg |-> "", query |-> <<>>]

VARIABLES
  user_concurrency, \* BasePoolImpl._user_concurrency (0 is None)
  suggested,        \* settings['suggested_pool_concurrency'] of the server (0 is absent)
  on_connect,       \* BaseImpl._on_connect is not None
  on_acquire,       \* BaseImpl._on_acquire is not None
  on_release,       \* BaseImpl._on_release is not None
  concurrency,      \* BasePoolImpl._concurrency
  nholders,         \* len(BasePoolImpl._holders); the holders are 1..nholders
  queue,            \* BasePoolImpl._queue contents, head first
  qinit,            \* BasePoolImpl._queue is not None
  maxsize,          \* BasePoolImpl._queue.maxsize
  getters,          \* callers suspended in _queue.get(), in arrival order
  working_addr,     \* BasePoolImpl._working_addr is not None
  closed,           \* BasePoolImpl._closed
  generation,       \* BasePoolImpl._generation
  hcon,             \* PoolConnectionHolder._con (NoCon is None)
  hgen,             \* PoolConnectionHolder._generation (NoGen is None)
  hfree,            \* PoolConnectionHolder._release_event.is_set()
  cstate,           \* connection: "none" (not created), "open", "closed"
  cholder,          \* BaseConnection._holder (NoHolder is None)
  ncons,            \* number of connections created so far
  pc,               \* the await at which each caller is suspended
  th,               \* the holder a caller's acquire/release is working on
  targ,             \* the connection captured by the caller's pending await
  tfirst,           \* the caller's pending connect is a first-connection resolution
  tcon,             \* the connection Pool.acquire returned to the caller
  tlast,            \* the connection the caller released last
  told,             \* the expired connection the caller's acquire is replacing
  waited,           \* callers whose current acquire was suspended in _queue.get()
  last,             \* the call that finished in the last step, if any:
                    \* <<caller, operation, outcome>>
  started,          \* the one-shot workers that have called Pool.acquire
  cbcount,          \* per worker, the on-acquire callback invocations of its acquire
  closing,          \* BasePoolImpl._closing
  cpc,              \* the graceful close: "idle", "waiting" or "done"
  cwait,            \* holders whose wait_until_released() has returned to the close
  cstart,           \* holders that were checked out when the close started
  cheld,            \* those of cstart that have not been released since
  ofree,            \* the other pool's holder: _release_event.is_set()
  oqueue,           \* the other pool's queue: number of free holders in it
  xacts,            \* the transaction objects created on the connection
  xstate,           \* BaseTransaction._state
  xiso,             \* BaseTransaction._isolation
  xro,              \* BaseTransaction._readonly
  xdef,             \* BaseTransaction._deferrable
  xnested,          \* BaseTransaction._nested
  xid,              \* BaseTransaction._id (NoId is None)
  xmanaged,         \* BaseTransaction._managed
  xblock,           \* the caller is inside the with block of the transaction
  top_xact,         \* connection._top_xact (NoXact is None)
  uid,              \* the connection's counter behind _get_unique_id
  xlast,            \* the transaction call that finished in the last step
  connect_args,     \* BaseImpl._connect_args: how often they were replaced
  working_args,     \* the _connect_args the remembered address was resolved from
  targs             \* the _connect_args behind the caller's pending connect

poolvars == <<user_concurrency, suggested, on_connect, on_acquire, on_release,
              concurrency, nholders, queue, qinit, maxsize, getters,
              working_addr, closed, generation>>
holdervars == <<hcon, hgen, hfree>>
convars == <<cstate, cholder, ncons>>
taskvars == <<pc, th, targ, tfirst, tcon, tlast, told, waited>>
workervars == <<started, cbcount>>
\* The state outside the pool, its holders, connections and callers.
closevars == <<closing, cpc, cwait, cstart, cheld>>
othervars == <<ofree, oqueue>>
xactvars == <<xacts, xstate, xiso, xro, xdef, xnested, xid, xmanaged, xblock,
              top_xact, uid, xlast>>
argvars == <<connect_args, working_args, targs>>
auxvars == <<workervars, closevars, othervars, xactvars, argvars>>
vars == <<poolvars, holdervars, convars, taskvars, last, auxvars>>

\* --------------------------------------------------- the mutable pool state
\* The part of the state that the synchronous helpers of holders and
\* connections read and write, as one record.
PoolState ==
  [queue |-> queue, maxsize |-> maxsize, concurrency |-> concurrency,
   nholders |-> nholders, hcon |-> hcon, hgen |-> hgen, hfree |-> hfree,
   cstate |-> cstate, cholder |-> cholder]

Store(S) ==
  /\ queue' = S.queue
  /\ maxsize' = S.maxsize
  /\ concurrency' = S.concurrency
  /\ nholders' = S.nholders
  /\ hcon' = S.hcon
  /\ hgen' = S.hgen
  /\ hfree' = S.hfree
  /\ cstate' = S.cstate
  /\ cholder' = S.cholder

\* BaseConnection.is_closed(): the protocol is gone or not connected.
is_closed(S, c) == S.cstate[c] = "closed"

\* _release that leaves the holder checked out.
_release_nothing(S, h) == S

\* _release that puts the holder at the front of the queue.
_release_lifo(S, h) ==
  IF S.hfree[h]
    THEN S
    ELSE [S EXCEPT !.hfree[h] = TRUE, !.queue = <<h>> \o S.queue]

\* _release that sets the release event but forgets to queue the holder.
_release_no_put(S, h) ==
  IF S.hfree[h] THEN S ELSE [S EXCEPT !.hfree[h] = TRUE]

\* PoolConnectionHolder._release
_release(S, h) ==
  IF S.hfree[h]
    THEN S
    ELSE [S EXCEPT !.hfree[h] = TRUE, !.queue = Append(S.queue, h)]

\* _release_on_close that keeps the closed connection in the holder.
_release_on_close_keep(S, h) == _release(S, h)

\* PoolConnectionHolder._release_on_close
_release_on_close(S, h) ==
  [_release(S, h) EXCEPT !.hcon[h] = NoCon]

\* _cleanup that frees the holder but keeps the connection's back-reference.
_cleanup_keep_holder(S, c) ==
  IF S.cholder[c] # NoHolder THEN _release_on_close(S, S.cholder[c]) ELSE S

\* BaseConnection._cleanup
_cleanup(S, c) ==
  IF S.cholder[c] # NoHolder
    THEN [_release_on_close(S, S.cholder[c]) EXCEPT !.cholder[c] = NoHolder]
    ELSE S

\* BaseConnection.terminate
terminate(S, c) ==
  IF ~is_closed(S, c)
    THEN _cleanup([S EXCEPT !.cstate[c] = "closed"], c)
    ELSE S

\* PoolConnectionHolder.terminate
holder_terminate(S, h) ==
  IF S.hcon[h] # NoCon THEN terminate(S, S.hcon[h]) ELSE S

\* BasePoolImpl._resize_holder_pool
_resize_holder_pool(S) ==
  LET resize_diff == S.concurrency - S.nholders
      new == (S.nholders + 1)..S.concurrency
      enq[i \in 0..MaxConcurrency] ==
        IF i = 0 THEN S.queue ELSE Append(enq[i - 1], S.nholders + i)
  IN IF resize_diff > 0
       THEN [S EXCEPT !.maxsize = S.concurrency,
                      !.nholders = S.concurrency,
                      !.hfree = [h \in Holders |-> IF h \in new THEN TRUE ELSE @[h]],
                      !.queue = enq[resize_diff]]
       ELSE S

\* BasePoolImpl.get_concurrency
get_concurrency == concurrency

\* BasePoolImpl.get_free_size
get_free_size == IF ~qinit THEN concurrency ELSE Len(queue)

Init ==
  /\ user_concurrency \in 0..MaxConcurrency
  /\ suggested \in {0, MaxConcurrency}
  /\ on_connect \in BOOLEAN
  /\ on_acquire = on_connect
  /\ on_release = on_connect
  /\ concurrency = IF user_concurrency # 0 THEN user_concurrency ELSE 1
  /\ nholders = 0
  /\ queue = <<>>
  /\ qinit = FALSE
  /\ maxsize = 0
  /\ getters = <<>>
  /\ working_addr = FALSE
  /\ closed = FALSE
  /\ generation = 0
  /\ hcon = [h \in Holders |-> NoCon]
  /\ hgen = [h \in Holders |-> NoGen]
  /\ hfree = [h \in Holders |-> FALSE]
  /\ cstate = [c \in Cons |-> "none"]
  /\ cholder = [c \in Cons |-> NoHolder]
  /\ ncons = 0
  /\ pc = [t \in Tasks |-> "idle"]
  /\ th = [t \in Tasks |-> NoHolder]
  /\ targ = [t \in Tasks |-> NoCon]
  /\ tfirst = [t \in Tasks |-> FALSE]
  /\ tcon = [t \in Tasks |-> NoCon]
  /\ tlast = [t \in Tasks |-> NoCon]
  /\ told = [t \in Tasks |-> NoCon]
  /\ waited = {}
  /\ last = NoCall
  /\ started = {}
  /\ cbcount = [t \in Tasks |-> 0]
  /\ closing = FALSE
  /\ cpc = "idle"
  /\ cwait = {}
  /\ cstart = {}
  /\ cheld = {}
  /\ ofree = FALSE
  /\ oqueue = 0
  /\ xacts = {}
  /\ xstate = [x \in Xacts |-> "NEW"]
  /\ xiso = [x \in Xacts |-> "unset"]
  /\ xro = [x \in Xacts |-> "unset"]
  /\ xdef = [x \in Xacts |-> "unset"]
  /\ xnested = [x \in Xacts |-> FALSE]
  /\ xid = [x \in Xacts |-> NoId]
  /\ xmanaged = [x \in Xacts |-> FALSE]
  /\ xblock = [x \in Xacts |-> FALSE]
  /\ top_xact = NoXact
  /\ uid = 0
  /\ xlast = NoXCall
  /\ connect_args = 0
  /\ working_args = 0
  /\ targs = [t \in Tasks |-> 0]

\* ------------------------------------------------------------ Pool.acquire
\* Store the caller's position.
Goto(t, p, h, a, f, o) ==
  /\ pc' = [pc EXCEPT ![t] = p]
  /\ th' = [th EXCEPT ![t] = h]
  /\ targ' = [targ EXCEPT ![t] = a]
  /\ tfirst' = [tfirst EXCEPT ![t] = f]
  /\ told' = [told EXCEPT ![t] = o]
  /\ waited' = IF p = "waiting" THEN waited \cup {t}
                ELSE IF p \in {"idle", "release_close", "on_release"}
                  THEN waited \ {t}
                  ELSE waited

\* Connection.close(): the session is shut down and the connection's cleanup runs.
close_connection(S, c) == _cleanup([S EXCEPT !.cstate[c] = "closed"], c)

\* PoolConnectionHolder.close
holder_close(S, h) ==
  IF S.hcon[h] = NoCon THEN S ELSE close_connection(S, S.hcon[h])

\* acquire that clears the release event before the on-acquire callback.
AcquireTail_clear_first(t, h, S) ==
  IF on_acquire
    THEN /\ Store([S EXCEPT !.hfree[h] = FALSE])
         /\ Goto(t, "on_acquire", h, S.hcon[h], FALSE, told[t])
         /\ last' = NoCall /\ UNCHANGED tcon
    ELSE /\ Store([S EXCEPT !.hfree[h] = FALSE])
         /\ Goto(t, "holding", NoHolder, NoCon, FALSE, told[t])
         /\ tcon' = [tcon EXCEPT ![t] = S.hcon[h]]
         /\ last' = <<t, "acquire", "none">>

\* PoolConnectionHolder.acquire, from the on-acquire callback to the return.
AcquireTail(t, h, S) ==
  IF on_acquire
    THEN /\ Store(S)
         /\ Goto(t, "on_acquire", h, S.hcon[h], FALSE, told[t])
         /\ last' = NoCall /\ UNCHANGED tcon
    ELSE /\ Store([S EXCEPT !.hfree[h] = FALSE])
         /\ Goto(t, "holding", NoHolder, NoCon, FALSE, told[t])
         /\ tcon' = [tcon EXCEPT ![t] = S.hcon[h]]
         /\ last' = <<t, "acquire", "none">>

\* PoolConnectionHolder.connect up to the await of the new connection
\* (BasePoolImpl._get_new_connection picks first-connection resolution here).
StartConnect(t, h, old, S) ==
  /\ Store(S)
  /\ Goto(t, "connect", h, NoCon, ~working_addr, old)
  /\ last' = NoCall /\ UNCHANGED tcon

\* acquire that connects anew even when the holder has a live connection.
HolderAcquire_always_connect(t, h, S) ==
  StartConnect(t, h, NoCon, [S EXCEPT !.hcon[h] = NoCon])

\* acquire that does not compare the holder's generation with the pool's.
HolderAcquire_no_generation(t, h, S) ==
  LET c == S.hcon[h] IN
  IF c = NoCon \/ is_closed(S, c)
    THEN StartConnect(t, h, NoCon, [S EXCEPT !.hcon[h] = NoCon])
    ELSE AcquireTail(t, h, S)

\* acquire that runs the on-connect callback on the holder's live connection.
HolderAcquire_on_connect_each(t, h, S) ==
  LET c == S.hcon[h] IN
  IF c = NoCon \/ is_closed(S, c)
    THEN StartConnect(t, h, NoCon, [S EXCEPT !.hcon[h] = NoCon])
    ELSE IF S.hgen[h] # generation
      THEN StartConnect(t, h, c, [holder_close(S, h) EXCEPT !.hcon[h] = NoCon])
      ELSE IF on_connect
        THEN /\ Store(S)
             /\ Goto(t, "on_connect", h, c, FALSE, told[t])
             /\ last' = NoCall /\ UNCHANGED tcon
        ELSE AcquireTail(t, h, S)

\* PoolConnectionHolder.acquire up to its first await, on the popped holder h.
HolderAcquire(t, h, S) ==
  LET c == S.hcon[h] IN
  IF c = NoCon \/ is_closed(S, c)
    THEN StartConnect(t, h, NoCon, [S EXCEPT !.hcon[h] = NoCon])
    ELSE IF S.hgen[h] # generation
      THEN StartConnect(t, h, c, [holder_close(S, h) EXCEPT !.hcon[h] = NoCon])
      ELSE AcquireTail(t, h, S)

\* PoolConnectionHolder.connect after the await: attach and stamp.
ConnectFinish(t, h, c, S) ==
  AcquireTail(t, h, [S EXCEPT !.hcon[h] = c, !.cholder[c] = h,
                              !.hgen[h] = generation])

\* Pool.acquire when holder.acquire() raised: the holder goes back to the queue.
AcquireFailed(t, h, S, e) ==
  /\ Store([S EXCEPT !.queue = Append(S.queue, h)])
  /\ Goto(t, "idle", NoHolder, NoCon, FALSE, NoCon)
  /\ last' = <<t, "acquire", e>>
  /\ UNCHANGED tcon

\* BasePoolImpl._ensure_initialized: create the queue and the first holders.
_ensure_initialized(S) ==
  IF qinit THEN S ELSE _resize_holder_pool([S EXCEPT !.maxsize = S.concurrency])

\* Pool.acquire: initialise, then take a holder or suspend in _queue.get().
AcquireCall(t) ==
  /\ pc[t] = "idle"
  /\ LET S == _ensure_initialized(PoolState) IN
     /\ qinit' = TRUE
     /\ IF S.queue # <<>> /\ getters = <<>>
          THEN /\ HolderAcquire(t, Head(S.queue), [S EXCEPT !.queue = Tail(S.queue)])
               /\ UNCHANGED getters
          ELSE /\ Store(S)
               /\ getters' = Append(getters, t)
               /\ Goto(t, "waiting", NoHolder, NoCon, FALSE, NoCon)
               /\ last' = NoCall /\ UNCHANGED tcon
  /\ tlast' = [tlast EXCEPT ![t] = NoCon]
  /\ UNCHANGED <<user_concurrency, suggested, on_connect, on_acquire, on_release,
                 working_addr, closed, generation, ncons>>

\* _queue.get() resumes for the longest-waiting caller once a holder is queued.
QueueGet(t) ==
  /\ pc[t] = "waiting"
  /\ getters # <<>> /\ Head(getters) = t
  /\ queue # <<>>
  /\ getters' = Tail(getters)
  /\ HolderAcquire(t, Head(queue), [PoolState EXCEPT !.queue = Tail(queue)])
  /\ UNCHANGED <<user_concurrency, suggested, on_connect, on_acquire, on_release,
                 qinit, working_addr, closed, generation, ncons, tlast>>

\* A cancelled _queue.get() that leaves its getter registered.
cancel_getter_keep(g, t) == g

\* _queue.get() cancelled: the caller's getter is withdrawn, the others keep
\* their order.
cancel_getter(g, t) == SelectSeq(g, LAMBDA u : u # t)

\* Pool.acquire is cancelled or times out while suspended in _queue.get().
AcquireAbandoned(t) ==
  /\ pc[t] = "waiting"
  /\ getters' = cancel_getter(getters, t)
  /\ Store(PoolState)
  /\ Goto(t, "idle", NoHolder, NoCon, FALSE, NoCon)
  /\ last' = <<t, "acquire", "TimeoutError">>
  /\ UNCHANGED <<user_concurrency, suggested, on_connect, on_acquire, on_release,
                 qinit, working_addr, closed, generation, ncons, tcon, tlast>>

\* _get_first_connection that takes the suggestion whatever the user pinned.
_get_first_connection_always(S) ==
  IF suggested # 0
    THEN _resize_holder_pool([S EXCEPT !.concurrency = suggested])
    ELSE S

\* BasePoolImpl._get_first_connection after the connection is established.
_get_first_connection(S) ==
  IF user_concurrency = 0 /\ suggested # 0
    THEN _resize_holder_pool([S EXCEPT !.concurrency = suggested])
    ELSE S

\* _new_connection_with_params returns a new connection (_get_new_connection).
ConnectOk(t) ==
  /\ pc[t] = "connect"
  /\ ncons < MaxCons
  /\ LET c == ncons + 1
         h == th[t]
         S0 == [PoolState EXCEPT !.cstate[c] = "open"]
         S == IF tfirst[t] THEN _get_first_connection(S0) ELSE S0
     IN /\ ncons' = c
        /\ working_addr' = (working_addr \/ tfirst[t])
        /\ IF on_connect
             THEN /\ Store(S)
                  /\ Goto(t, "on_connect", h, c, FALSE, told[t])
                  /\ last' = NoCall /\ UNCHANGED tcon
             ELSE ConnectFinish(t, h, c, S)
  /\ UNCHANGED <<user_concurrency, suggested, on_connect, on_acquire, on_release,
                 qinit, getters, closed, generation, tlast>>

\* _new_connection_with_params raises.
ConnectFail(t) ==
  /\ pc[t] = "connect"
  /\ AcquireFailed(t, th[t], PoolState, "ClientConnectionError")
  /\ UNCHANGED <<user_concurrency, suggested, on_connect, on_acquire, on_release,
                 qinit, getters, working_addr, closed, generation, ncons, tlast>>

\* The on-connect callback returns.
OnConnectOk(t) ==
  /\ pc[t] = "on_connect"
  /\ ConnectFinish(t, th[t], targ[t], PoolState)
  /\ UNCHANGED <<user_concurrency, suggested, on_connect, on_acquire, on_release,
                 qinit, getters, working_addr, closed, generation, ncons, tlast>>

\* _callback that re-raises without closing the connection.
_callback_no_close(S, c) == S

\* BasePoolImpl._callback when the callback raised: close the connection, re-raise.
_callback_failed(S, c) == close_connection(S, c)

\* The on-connect callback raises.
OnConnectFail(t) ==
  /\ pc[t] = "on_connect"
  /\ AcquireFailed(t, th[t], _callback_failed(PoolState, targ[t]), "CallbackError")
  /\ UNCHANGED <<user_concurrency, suggested, on_connect, on_acquire, on_release,
                 qinit, getters, working_addr, closed, generation, ncons, tlast>>

\* The on-acquire callback returns: clear the release event, return self._con.
OnAcquireOk(t) ==
  /\ pc[t] = "on_acquire"
  /\ LET h == th[t] IN
     /\ Store([PoolState EXCEPT !.hfree[h] = FALSE])
     /\ Goto(t, "holding", NoHolder, NoCon, FALSE, told[t])
     /\ tcon' = [tcon EXCEPT ![t] = hcon[h]]
     /\ last' = <<t, "acquire", "none">>
  /\ UNCHANGED <<user_concurrency, suggested, on_connect, on_acquire, on_release,
                 qinit, getters, working_addr, closed, generation, ncons, tlast>>

\* The on-acquire callback raises.
OnAcquireFail(t) ==
  /\ pc[t] = "on_acquire"
  /\ AcquireFailed(t, th[t], _callback_failed(PoolState, targ[t]), "CallbackError")
  /\ UNCHANGED <<user_concurrency, suggested, on_connect, on_acquire, on_release,
                 qinit, getters, working_addr, closed, generation, ncons, tlast>>

\* ------------------------------------------------------------ Pool.release
\* The caller's release call is over with outcome e.
Return(t, op, e) ==
  /\ Goto(t, "idle", NoHolder, NoCon, FALSE, NoCon)
  /\ last' = <<t, op, e>>

\* release that does not compare the holder's generation with the pool's.
HolderRelease_no_generation(t, ch, op, S) ==
  IF S.hfree[ch]
    THEN Store(S) /\ Return(t, op, "InternalClientError")
  ELSE IF S.hcon[ch] = NoCon
    THEN Store(S) /\ Return(t, op, "AttributeError")
  ELSE IF is_closed(S, S.hcon[ch])
    THEN Store(_release_on_close(S, ch)) /\ Return(t, op, "none")
  ELSE IF on_release
    THEN /\ Store(S)
         /\ Goto(t, "on_release", ch, S.hcon[ch], FALSE, NoCon)
         /\ last' = NoCall
  ELSE Store(_release(S, ch)) /\ Return(t, op, "none")

\* PoolConnectionHolder.release on holder ch, up to its first await.
HolderRelease(t, ch, op, S) ==
  IF S.hfree[ch]
    THEN Store(S) /\ Return(t, op, "InternalClientError")
  ELSE IF S.hcon[ch] = NoCon
    THEN Store(S) /\ Return(t, op, "AttributeError")
  ELSE IF is_closed(S, S.hcon[ch])
    THEN Store(_release_on_close(S, ch)) /\ Return(t, op, "none")
  ELSE IF S.hgen[ch] # generation
    THEN /\ Store(S)
         /\ Goto(t, "release_close", ch, S.hcon[ch], FALSE, NoCon)
         /\ last' = NoCall
  ELSE IF on_release
    THEN /\ Store(S)
         /\ Goto(t, "on_release", ch, S.hcon[ch], FALSE, NoCon)
         /\ last' = NoCall
  ELSE Store(_release(S, ch)) /\ Return(t, op, "none")

\* release that hands a holder to holder.release() whatever its pool.
PoolRelease_no_pool_check(t, c, op) ==
  LET ch == IF c = ForeignCon THEN ForeignHolder ELSE cholder[c] IN
  IF c = NoCon
    THEN Store(PoolState) /\ Return(t, op, "InterfaceError")
  ELSE IF ch = NoHolder
    THEN Store(PoolState) /\ Return(t, op, "none")
  ELSE IF ch = ForeignHolder
    THEN /\ Store(PoolState)
         /\ IF ofree
              THEN Return(t, op, "InternalClientError") /\ UNCHANGED othervars
              ELSE /\ Return(t, op, "none")
                   /\ ofree' = TRUE /\ oqueue' = oqueue + 1
  ELSE HolderRelease(t, ch, op, PoolState)

\* BasePoolImpl.release(connection), with BasePoolImpl._release(ch)
\* delegating to the holder. NoCon stands for a value that is no connection.
PoolRelease(t, c, op) ==
  LET ch == IF c = ForeignCon THEN ForeignHolder ELSE cholder[c] IN
  IF c = NoCon
    THEN Store(PoolState) /\ Return(t, op, "InterfaceError")
  ELSE IF ch = NoHolder
    THEN Store(PoolState) /\ Return(t, op, "none")
  ELSE IF ch = ForeignHolder
    THEN Store(PoolState) /\ Return(t, op, "InterfaceError")
         /\ UNCHANGED othervars
  ELSE HolderRelease(t, ch, op, PoolState)

\* A caller releases the connection it holds.
ReleaseCall(t) ==
  /\ pc[t] = "holding"
  /\ tcon' = [tcon EXCEPT ![t] = NoCon]
  /\ tlast' = [tlast EXCEPT ![t] = IF t \in Repeaters THEN tcon[t] ELSE NoCon]
  /\ PoolRelease(t, tcon[t], "release")
  /\ UNCHANGED <<user_concurrency, suggested, on_connect, on_acquire, on_release,
                 qinit, getters, working_addr, closed, generation, ncons>>

\* A caller calls Pool.release again for the connection it released last.
ReleaseAgain(t) ==
  /\ pc[t] = "idle"
  /\ tlast[t] # NoCon
  /\ PoolRelease(t, tlast[t], "release_again")
  /\ UNCHANGED <<user_concurrency, suggested, on_connect, on_acquire, on_release,
                 qinit, getters, working_addr, closed, generation, ncons,
                 tcon, tlast>>

\* A caller passes Pool.release a connection of another pool.
ReleaseForeign(t) ==
  /\ pc[t] = "idle"
  /\ PoolRelease(t, ForeignCon, "release_foreign")
  /\ UNCHANGED <<user_concurrency, suggested, on_connect, on_acquire, on_release,
                 qinit, getters, working_addr, closed, generation, ncons,
                 tcon, tlast>>

\* A caller passes Pool.release a value that is not a connection.
ReleaseInvalid(t) ==
  /\ pc[t] = "idle"
  /\ PoolRelease(t, NoCon, "release_invalid")
  /\ UNCHANGED <<user_concurrency, suggested, on_connect, on_acquire, on_release,
                 qinit, getters, working_addr, closed, generation, ncons,
                 tcon, tlast>>

\* PoolConnectionHolder.release: the awaited close() of an expired connection ends.
ReleaseCloseDone(t) ==
  /\ pc[t] = "release_close"
  /\ Store(close_connection(PoolState, targ[t]))
  /\ Return(t, "release", "none")
  /\ UNCHANGED <<user_concurrency, suggested, on_connect, on_acquire, on_release,
                 qinit, getters, working_addr, closed, generation, ncons,
                 tcon, tlast>>

\* The on-release callback returns: PoolConnectionHolder._release().
OnReleaseOk(t) ==
  /\ pc[t] = "on_release"
  /\ Store(_release(PoolState, th[t]))
  /\ Return(t, "release", "none")
  /\ UNCHANGED <<user_concurrency, suggested, on_connect, on_acquire, on_release,
                 qinit, getters, working_addr, closed, generation, ncons,
                 tcon, tlast>>

\* The on-release callback raises.
OnReleaseFail(t) ==
  /\ pc[t] = "on_release"
  /\ Store(_callback_failed(PoolState, targ[t]))
  /\ Return(t, "release", "CallbackError")
  /\ UNCHANGED <<user_concurrency, suggested, on_connect, on_acquire, on_release,
                 qinit, getters, working_addr, closed, generation, ncons,
                 tcon, tlast>>

\* ------------------------------------------------------------- environment
\* A checked-out connection breaks: is_closed() turns true, _cleanup() never ran.
Break(c) ==
  /\ cstate[c] = "open"
  /\ \E t \in Tasks : pc[t] = "holding" /\ tcon[t] = c
  /\ cstate' = [cstate EXCEPT ![c] = "closed"]
  /\ last' = NoCall
  /\ UNCHANGED <<poolvars, holdervars, cholder, ncons, taskvars>>

\* BasePoolImpl.terminate
pool_terminate(S) ==
  LET term[i \in 0..MaxConcurrency] ==
        IF i = 0 THEN S ELSE holder_terminate(term[i - 1], i)
  IN term[S.nholders]

PoolTerminate ==
  /\ IF closed
       THEN Store(PoolState)
       ELSE Store(pool_terminate(PoolState))
  /\ closed' = TRUE
  /\ UNCHANGED <<user_concurrency, suggested, on_connect, on_acquire, on_release,
                 qinit, getters, working_addr, generation, ncons, taskvars>>
  /\ last' = <<0, "pool_terminate", "none">>

\* Connection.terminate() by the caller that holds the connection or whose
\* callback was handed it.
ConnTerminate(t) ==
  /\ pc[t] \in {"holding", "on_connect", "on_acquire", "on_release"}
  /\ LET c == IF pc[t] = "holding" THEN tcon[t] ELSE targ[t] IN
     /\ c # NoCon
     /\ Store(terminate(PoolState, c))
  /\ last' = <<t, "terminate", "none">>
  /\ UNCHANGED <<user_concurrency, suggested, on_connect, on_acquire, on_release,
                 qinit, getters, working_addr, closed, generation, ncons, taskvars>>

\* ----------------------------------------------------- Pool.ensure_connected
\* The loop of ensure_connected: some holder has a connection that is not
\* closed.
EnsureSatisfied(S) ==
  \E h \in 1..S.nholders : S.hcon[h] # NoCon /\ ~is_closed(S, S.hcon[h])

\* connect that attaches the connection and leaves the holder's stamp.
holder_attach_no_stamp(S, h, c) ==
  [S EXCEPT !.hcon[h] = c, !.cholder[c] = h]

\* PoolConnectionHolder.connect after the await: attach and stamp.
holder_attach(S, h, c) ==
  [S EXCEPT !.hcon[h] = c, !.cholder[c] = h, !.hgen[h] = generation]

\* BasePoolImpl.ensure_connected up to its await: return if a holder has a
\* live connection, else drop the first holder's connection and connect.
EnsureCall(t) ==
  /\ pc[t] = "idle"
  /\ LET S == _ensure_initialized(PoolState) IN
     /\ qinit' = TRUE
     /\ IF EnsureSatisfied(S)
          THEN Store(S) /\ Return(t, "ensure_connected", "none")
          ELSE /\ Store([S EXCEPT !.hcon[1] = NoCon])
               /\ Goto(t, "ensure_connect", 1, NoCon, ~working_addr, NoCon)
               /\ last' = NoCall
  /\ UNCHANGED <<user_concurrency, suggested, on_connect, on_acquire, on_release,
                 getters, working_addr, closed, generation, ncons, tcon, tlast>>

\* The connect of ensure_connected returns a new connection.
EnsureConnectOk(t) ==
  /\ pc[t] = "ensure_connect"
  /\ ncons < MaxCons
  /\ LET c == ncons + 1
         h == th[t]
         S0 == [PoolState EXCEPT !.cstate[c] = "open"]
         S == IF tfirst[t] THEN _get_first_connection(S0) ELSE S0
     IN /\ ncons' = c
        /\ working_addr' = (working_addr \/ tfirst[t])
        /\ IF on_connect
             THEN /\ Store(S)
                  /\ Goto(t, "ensure_on_connect", h, c, FALSE, NoCon)
                  /\ last' = NoCall
             ELSE /\ Store(holder_attach(S, h, c))
                  /\ Return(t, "ensure_connected", "none")
  /\ UNCHANGED <<user_concurrency, suggested, on_connect, on_acquire, on_release,
                 qinit, getters, closed, generation, tcon, tlast>>

\* The connect of ensure_connected raises.
EnsureConnectFail(t) ==
  /\ pc[t] = "ensure_connect"
  /\ Store(PoolState)
  /\ Return(t, "ensure_connected", "ClientConnectionError")
  /\ UNCHANGED <<user_concurrency, suggested, on_connect, on_acquire, on_release,
                 qinit, getters, working_addr, closed, generation, ncons,
                 tcon, tlast>>

\* The on-connect callback of ensure_connected's connection returns.
EnsureOnConnectOk(t) ==
  /\ pc[t] = "ensure_on_connect"
  /\ Store(holder_attach(PoolState, th[t], targ[t]))
  /\ Return(t, "ensure_connected", "none")
  /\ UNCHANGED <<user_concurrency, suggested, on_connect, on_acquire, on_release,
                 qinit, getters, working_addr, closed, generation, ncons,
                 tcon, tlast>>

\* The on-connect callback of ensure_connected's connection raises.
EnsureOnConnectFail(t) ==
  /\ pc[t] = "ensure_on_connect"
  /\ Store(_callback_failed(PoolState, targ[t]))
  /\ Return(t, "ensure_connected", "CallbackError")
  /\ UNCHANGED <<user_concurrency, suggested, on_connect, on_acquire, on_release,
                 qinit, getters, working_addr, closed, generation, ncons,
                 tcon, tlast>>

\* The steps of Pool.ensure_connected.
EnsureStep(t) ==
  \/ EnsureCall(t)
  \/ EnsureConnectOk(t)
  \/ EnsureConnectFail(t)
  \/ EnsureOnConnectOk(t)
  \/ EnsureOnConnectFail(t)

\* BasePoolImpl.expire_connections
expire_connections ==
  /\ generation < MaxGen
  /\ generation' = generation + 1
  /\ UNCHANGED <<user_concurrency, suggested, on_connect, on_acquire, on_release,
                 concurrency, nholders, queue, qinit, maxsize, getters,
                 working_addr, closed, holdervars, convars, taskvars>>
  /\ last' = NoCall

\* One step of the pool, whoever takes it.
PoolNext ==
  \/ \E t \in Tasks : AcquireCall(t)
  \/ \E t \in Tasks : QueueGet(t)
  \/ \E t \in Tasks : ConnectOk(t)
  \/ \E t \in Tasks : ConnectFail(t)
  \/ \E t \in Tasks : OnConnectOk(t)
  \/ \E t \in Tasks : OnConnectFail(t)
  \/ \E t \in Tasks : OnAcquireOk(t)
  \/ \E t \in Tasks : OnAcquireFail(t)
  \/ \E t \in Tasks : ReleaseCall(t)
  \/ \E t \in Tasks : ReleaseAgain(t)
  \/ \E t \in Tasks : ReleaseCloseDone(t)
  \/ \E t \in Tasks : OnReleaseOk(t)
  \/ \E t \in Tasks : OnReleaseFail(t)
  \/ \E c \in Cons : Break(c)
  \/ PoolTerminate
  \/ expire_connections
  \/ \E t \in Tasks : ConnTerminate(t)
  \/ \E t \in Tasks : EnsureStep(t)

\* The steps of Pool.acquire and of Pool.release on a held connection.
PoolStep(t) ==
  \/ AcquireCall(t)
  \/ QueueGet(t)
  \/ ConnectOk(t)
  \/ ConnectFail(t)
  \/ OnConnectOk(t)
  \/ OnConnectFail(t)
  \/ OnAcquireOk(t)
  \/ OnAcquireFail(t)
  \/ ReleaseCall(t)
  \/ OnReleaseOk(t)
  \/ OnReleaseFail(t)

\* Acquire and release only, every caller releasing what it holds.
NextPool == (\E t \in Tasks : PoolStep(t)) /\ UNCHANGED auxvars

SpecPool == Init /\ [][NextPool]_vars

\* The callers of the specifications that add an operation to acquire/release.
Pair == 1..(MaxTasks - 1)

\* Acquire and release, with callers that may repeat a release.
NextRepeat ==
  /\ \/ \E t \in Pair : PoolStep(t)
     \/ \E t \in Pair : ReleaseAgain(t)
  /\ UNCHANGED auxvars

SpecRepeat == Init /\ [][NextRepeat]_vars

\* Acquire and release with expire_connections().
NextExpire ==
  /\ \/ \E t \in Pair : PoolStep(t)
     \/ \E t \in Pair : ReleaseCloseDone(t)
     \/ expire_connections
  /\ UNCHANGED auxvars

SpecExpire == Init /\ [][NextExpire]_vars

\* Acquire and release with checked-out connections breaking.
NextBroken ==
  /\ \/ \E t \in Pair : PoolStep(t)
     \/ \E c \in Cons : Break(c)
  /\ UNCHANGED auxvars

SpecBroken == Init /\ [][NextBroken]_vars

\* Acquire and release with expire_connections(), Connection.terminate() and
\* Pool.terminate().
NextTerminate ==
  /\ \/ \E t \in Pair : PoolStep(t)
     \/ \E t \in Pair : ReleaseCloseDone(t)
     \/ (generation = 0 /\ expire_connections)
     \/ \E t \in Pair : ConnTerminate(t)
     \/ PoolTerminate
  /\ UNCHANGED auxvars

\* The user pins the concurrency: the holders are those of the start.
InitTerminate == Init /\ user_concurrency # 0 /\ suggested = 0

SpecTerminate == InitTerminate /\ [][NextTerminate]_vars

\* Acquire and release with ensure_connected() and expire_connections().
NextEnsure ==
  /\ \/ \E t \in Pair : PoolStep(t)
     \/ \E t \in Pair : ReleaseCloseDone(t)
     \/ \E t \in Pair : EnsureStep(t)
     \/ (generation = 0 /\ expire_connections)
  /\ UNCHANGED auxvars

SpecEnsure == Init /\ [][NextEnsure]_vars

\* ---------------------------------------- PoolConnectionHolder.connect, direct
\* connect that does not check whether the holder has a connection.
HolderConnect_unchecked(t, h) ==
  /\ pc[t] = "idle"
  /\ h \in 1..nholders
  /\ Store(PoolState)
  /\ Goto(t, "ensure_connect", h, NoCon, ~working_addr, NoCon)
  /\ last' = NoCall
  /\ UNCHANGED <<user_concurrency, suggested, on_connect, on_acquire, on_release,
                 qinit, getters, working_addr, closed, generation, ncons,
                 tcon, tlast>>

\* PoolConnectionHolder.connect called on holder h by a caller that did not
\* go through Pool.acquire: InternalClientError if the holder has a
\* connection, else the connect proceeds as the one of ensure_connected.
HolderConnect(t, h) ==
  /\ pc[t] = "idle"
  /\ h \in 1..nholders
  /\ Store(PoolState)
  /\ IF hcon[h] # NoCon
       THEN Return(t, "connect", "InternalClientError")
       ELSE /\ Goto(t, "ensure_connect", h, NoCon, ~working_addr, NoCon)
            /\ last' = NoCall
  /\ UNCHANGED <<user_concurrency, suggested, on_connect, on_acquire, on_release,
                 qinit, getters, working_addr, closed, generation, ncons,
                 tcon, tlast>>

\* Acquire and release with callers that misuse holders: a second release of
\* a released connection, a direct connect.
NextMisuse ==
  /\ \/ \E t \in Pair : PoolStep(t)
     \/ \E t \in Pair : ReleaseAgain(t)
     \/ \E t \in Pair : \E h \in Holders : HolderConnect(t, h)
     \/ \E t \in Pair : EnsureConnectOk(t)
     \/ \E t \in Pair : EnsureConnectFail(t)
     \/ \E t \in Pair : EnsureOnConnectOk(t)
     \/ \E t \in Pair : EnsureOnConnectFail(t)
  /\ UNCHANGED auxvars

SpecMisuse == Init /\ [][NextMisuse]_vars

\* Acquire and release with acquires abandoned while they wait.
NextAbandon ==
  /\ \/ \E t \in Tasks : PoolStep(t)
     \/ \E t \in Tasks : AcquireAbandoned(t)
  /\ UNCHANGED auxvars

SpecAbandon == Init /\ [][NextAbandon]_vars

\* -------------------------------------------------- Pool.set_connect_args
\* BasePoolImpl.set_connect_args: replace the connect arguments and forget the
\* working address, config and params.
set_connect_args ==
  /\ connect_args < MaxArgs
  /\ connect_args' = connect_args + 1
  /\ working_addr' = FALSE
  /\ last' = <<0, "set_connect_args", "none">>
  /\ UNCHANGED <<user_concurrency, suggested, on_connect, on_acquire, on_release,
                 concurrency, nholders, queue, qinit, maxsize, getters,
                 closed, generation, holdervars, convars, taskvars,
                 working_args, targs>>

\* _get_new_connection, the arguments of the connect: a first-connection
\* resolution parses the current _connect_args before its await, any other
\* connect passes the remembered triple; a first connection that succeeds
\* remembers the address it connected to.
ConnectArgs(t) ==
  /\ targs' = [targs EXCEPT ![t] =
                 IF pc[t] # "connect" /\ pc'[t] = "connect"
                   THEN IF tfirst'[t] THEN connect_args ELSE working_args
                   ELSE @]
  /\ working_args' = IF pc[t] = "connect" /\ ncons' # ncons /\ tfirst[t]
                       THEN targs[t]
                       ELSE working_args
  /\ UNCHANGED connect_args

\* Acquire and release with set_connect_args().
NextArgs ==
  /\ \/ \E t \in Pair : PoolStep(t) /\ ConnectArgs(t)
     \/ set_connect_args
  /\ UNCHANGED <<workervars, closevars, othervars, xactvars>>

SpecArgs == Init /\ [][NextArgs]_vars

\* The steps a caller takes once resumed: no failing connect or callback,
\* and every caller that holds a connection releases it.
ProgressStep(t) ==
  /\ \/ QueueGet(t)
     \/ ConnectOk(t)
     \/ OnConnectOk(t)
     \/ OnAcquireOk(t)
     \/ ReleaseCall(t)
     \/ OnReleaseOk(t)
  /\ UNCHANGED auxvars

\* Callers acquire whenever they like; the event loop resumes every caller
\* that can run (tests/test_asyncio_client.py, test_client_no_acquire_deadlock).
NextLive ==
  \/ \E t \in Tasks : AcquireCall(t) /\ UNCHANGED auxvars
  \/ \E t \in Tasks : ProgressStep(t)

SpecLive ==
  Init /\ [][NextLive]_vars /\ \A t \in Tasks : WF_vars(ProgressStep(t))

\* Acquire and release, with callers that pass Pool.release what they should
\* not: a released connection, another pool's connection, no connection.
NextValidate ==
  \/ \E t \in Pair : PoolStep(t) /\ UNCHANGED auxvars
  \/ \E t \in Pair : ReleaseAgain(t) /\ UNCHANGED auxvars
  \/ \E t \in Pair :
       ReleaseForeign(t) /\ UNCHANGED <<workervars, closevars, xactvars, argvars>>
  \/ \E t \in Pair : ReleaseInvalid(t) /\ UNCHANGED auxvars

SpecValidate == Init /\ [][NextValidate]_vars

\* ------------------------------------------------------------ graceful close
\* Pool close starts: it will wait for every holder to be released.
CloseStart ==
  /\ cpc = "idle" /\ ~closed
  /\ cpc' = "waiting"
  /\ closing' = TRUE
  /\ cwait' = {}
  /\ cstart' = {h \in 1..nholders : ~hfree[h]}
  /\ cheld' = cstart'
  /\ last' = NoCall
  /\ UNCHANGED <<poolvars, holdervars, convars, taskvars, workervars,
                 othervars, xactvars, argvars>>

\* wait_until_released that returns at once.
wait_until_released_now(h) == TRUE

\* PoolConnectionHolder.wait_until_released: returns once the release event is set.
wait_until_released(h) == hfree[h]

\* One holder's wait_until_released() returns to the close.
CloseWait(h) ==
  /\ cpc = "waiting"
  /\ h \in 1..nholders /\ h \notin cwait
  /\ wait_until_released(h)
  /\ cwait' = cwait \cup {h}
  /\ last' = NoCall
  /\ UNCHANGED <<poolvars, holdervars, convars, taskvars, workervars,
                 closing, cpc, cstart, cheld, othervars, xactvars, argvars>>

\* Closing every holder, in holder order.
close_holders(S) ==
  LET cl[i \in 0..MaxConcurrency] ==
        IF i = 0 THEN S ELSE holder_close(cl[i - 1], i)
  IN cl[S.nholders]

\* Every wait has returned: the holders are closed and the pool is closed.
CloseFinish ==
  /\ cpc = "waiting"
  /\ cwait = 1..nholders
  /\ Store(close_holders(PoolState))
  /\ closed' = TRUE
  /\ closing' = FALSE
  /\ cpc' = "done"
  /\ last' = NoCall
  /\ UNCHANGED <<user_concurrency, suggested, on_connect, on_acquire, on_release,
                 qinit, getters, working_addr, generation, ncons, taskvars,
                 workervars, cwait, cstart, cheld, othervars, xactvars,
                 argvars>>

\* A caller's step while a close may be under way; a holder that becomes
\* free is no longer one the close is waiting for.
CloseCallerStep(t) ==
  /\ \/ (~closing /\ ~closed /\ AcquireCall(t))
     \/ QueueGet(t)
     \/ ConnectOk(t)
     \/ OnConnectOk(t)
     \/ OnAcquireOk(t)
     \/ ReleaseCall(t)
     \/ OnReleaseOk(t)
  /\ cheld' = {h \in cheld : ~hfree'[h]}
  /\ UNCHANGED <<workervars, closing, cpc, cwait, cstart, othervars, xactvars,
                 argvars>>

\* Callers acquire and release while the pool is closed gracefully once.
NextClose ==
  \/ \E t \in Pair : CloseCallerStep(t)
  \/ CloseStart
  \/ \E h \in Holders : CloseWait(h)
  \/ CloseFinish

SpecClose == Init /\ [][NextClose]_vars

\* A one-shot worker (tests/test_asyncio_client.py, test_client_07): one
\* acquire, one release, no failing connect or callback.
WorkerStep(t) ==
  /\ \/ (t \notin started /\ AcquireCall(t))
     \/ QueueGet(t)
     \/ ConnectOk(t)
     \/ OnConnectOk(t)
     \/ OnAcquireOk(t)
     \/ ReleaseCall(t)
     \/ OnReleaseOk(t)
  /\ started' = started \cup {t}
  /\ cbcount' = [cbcount EXCEPT ![t] =
                   IF pc[t] # "on_acquire" /\ pc'[t] = "on_acquire"
                     THEN @ + 1 ELSE @]
  /\ UNCHANGED <<closevars, othervars, xactvars, argvars>>

\* MaxTasks one-shot workers run concurrently.
NextWorkers == \E t \in Tasks : WorkerStep(t)

SpecWorkers == Init /\ [][NextWorkers]_vars

\* ------------------------------------------------------------ transactions
\* edgedb/legacy_transaction.py: the transactions of one connection. A call
\* runs to its end in one step; privileged_execute returns or raises.

\* BaseTransaction.__init__
NewTransaction(x, isolation, readonly, deferrable) ==
  /\ x \notin xacts /\ x = Cardinality(xacts) + 1
  /\ xacts' = xacts \cup {x}
  /\ xiso' = [xiso EXCEPT ![x] = isolation]
  /\ xro' = [xro EXCEPT ![x] = readonly]
  /\ xdef' = [xdef EXCEPT ![x] = deferrable]
  /\ xstate' = [xstate EXCEPT ![x] = "NEW"]
  /\ xnested' = [xnested EXCEPT ![x] = FALSE]
  /\ xid' = [xid EXCEPT ![x] = NoId]
  /\ xmanaged' = [xmanaged EXCEPT ![x] = FALSE]
  /\ xlast' = NoXCall
  /\ UNCHANGED <<xblock, top_xact, uid>>

\* BaseTransaction.is_active
is_active(x) == xstate[x] = "STARTED"

\* BaseTransaction.__check_state_base: the message raised, "" if none.
check_state_base(x) ==
  IF xstate[x] = "COMMITTED" THEN "the transaction is already committed"
  ELSE IF xstate[x] = "ROLLEDBACK" THEN "the transaction is already rolled back"
  ELSE IF xstate[x] = "FAILED" THEN "the transaction is in error state"
  ELSE ""

\* __check_state that lets a transaction that was never started through.
check_state_started_or_new(x) == check_state_base(x)

\* BaseTransaction.__check_state: the message raised, "" if none.
check_state(x) ==
  IF xstate[x] # "STARTED"
    THEN IF xstate[x] = "NEW"
           THEN "the transaction is not yet started"
           ELSE check_state_base(x)
    ELSE ""

\* The guards at the head of _make_start_query.
start_guard(x) ==
  IF check_state_base(x) # "" THEN check_state_base(x)
  ELSE IF xstate[x] = "STARTED" THEN "the transaction is already started"
  ELSE ""

\* An attribute of a nested transaction after inheriting from the top one.
inherit(own, outer) == IF own = "unset" THEN outer ELSE own

\* A nested start that compares no attribute.
nested_conflict_none(isolation, readonly, deferrable, top) == ""

\* The attribute comparisons of a nested start: the message raised, "" if none.
nested_conflict(isolation, readonly, deferrable, top) ==
  IF isolation # xiso[top]
    THEN "nested transaction has a different isolation level"
  ELSE IF readonly # xro[top]
    THEN "nested transaction has a different read-write spec"
  ELSE IF deferrable # xdef[top]
    THEN "nested transaction has a different deferrable spec"
  ELSE ""

\* A top-level start that takes a false flag for an unset one.
start_query_truthy(isolation, readonly, deferrable) ==
  (IF isolation = "repeatable_read"
     THEN <<"START TRANSACTION ISOLATION REPEATABLE READ">>
   ELSE IF isolation = "serializable"
     THEN <<"START TRANSACTION ISOLATION SERIALIZABLE">>
   ELSE <<"START TRANSACTION">>)
  \o (IF readonly = "true" THEN <<" READ ONLY">> ELSE <<>>)
  \o (IF deferrable = "true" THEN <<" DEFERRABLE">> ELSE <<>>)
  \o <<";">>

\* The statement of a top-level start, as the words appended one by one.
start_query(isolation, readonly, deferrable) ==
  (IF isolation = "repeatable_read"
     THEN <<"START TRANSACTION ISOLATION REPEATABLE READ">>
   ELSE IF isolation = "serializable"
     THEN <<"START TRANSACTION ISOLATION SERIALIZABLE">>
   ELSE <<"START TRANSACTION">>)
  \o (IF readonly = "true" THEN <<" READ ONLY">>
      ELSE IF readonly # "unset" THEN <<" READ WRITE">> ELSE <<>>)
  \o (IF deferrable = "true" THEN <<" DEFERRABLE">>
      ELSE IF deferrable # "unset" THEN <<" NOT DEFERRABLE">> ELSE <<>>)
  \o <<";">>

\* The record of a finished call.
XCall(x, op, err, msg, query) ==
  [x |-> x, op |-> op, err |-> err, msg |-> msg, query |-> query]

\* A handler that swallows the error of privileged_execute.
raised_swallowed(r) == "none"

\* The error a raising privileged_execute leaves, "none" if it returned.
raised(r) == IF r = "ok" THEN "none" ELSE r

\* con._get_unique_id('savepoint'): an id the connection has not handed out.
_get_unique_id == uid + 1

\* Transaction.start: _make_start_query, then the statement is executed
\* with outcome r.
start(x, r, op) ==
  LET top == top_xact
      isolation == IF top = NoXact THEN xiso[x] ELSE inherit(xiso[x], xiso[top])
      readonly == IF top = NoXact THEN xro[x] ELSE inherit(xro[x], xro[top])
      deferrable == IF top = NoXact THEN xdef[x] ELSE inherit(xdef[x], xdef[top])
      conflict == IF top = NoXact THEN ""
                  ELSE nested_conflict(isolation, readonly, deferrable, top)
      nested == (top # NoXact) \/ xnested[x]
      id == _get_unique_id
      query == IF nested
                 THEN <<"DECLARE SAVEPOINT ", ToString(id), ";">>
                 ELSE start_query(isolation, readonly, deferrable)
  IN
  IF start_guard(x) # ""
    THEN /\ xlast' = XCall(x, op, "InterfaceError", start_guard(x), <<>>)
         /\ UNCHANGED <<xstate, xiso, xro, xdef, xnested, xid, top_xact, uid>>
    ELSE /\ xiso' = [xiso EXCEPT ![x] = isolation]
         /\ xro' = [xro EXCEPT ![x] = readonly]
         /\ xdef' = [xdef EXCEPT ![x] = deferrable]
         /\ IF conflict # ""
              THEN /\ xlast' = XCall(x, op, "InterfaceError", conflict, <<>>)
                   /\ UNCHANGED <<xstate, xnested, xid, top_xact, uid>>
              ELSE /\ top_xact' = IF top = NoXact THEN x ELSE top
                   /\ xnested' = [xnested EXCEPT ![x] = nested]
                   /\ xid' = [xid EXCEPT ![x] = IF nested THEN id ELSE @]
                   /\ uid' = IF nested THEN id ELSE uid
                   /\ xstate' = [xstate EXCEPT ![x] =
                                   IF r = "ok" THEN "STARTED" ELSE "FAILED"]
                   /\ xlast' = XCall(x, op, raised(r), "", query)

\* _make_commit_query / _make_rollback_query: the statement that ends x.
end_query(x, commit) ==
  IF xnested[x]
    THEN <<(IF commit THEN "RELEASE SAVEPOINT " ELSE "ROLLBACK TO SAVEPOINT "),
           ToString(xid[x]), ";">>
    ELSE <<(IF commit THEN "COMMIT;" ELSE "ROLLBACK;")>>

\* Transaction.__commit (commit = TRUE) and Transaction.__rollback (FALSE),
\* the statement executed with outcome r.
finish(x, commit, r, op) ==
  IF check_state(x) # ""
    THEN /\ xlast' = XCall(x, op, "InterfaceError", check_state(x), <<>>)
         /\ UNCHANGED <<xstate, top_xact>>
    ELSE /\ top_xact' = IF top_xact = x THEN NoXact ELSE top_xact
         /\ xstate' = [xstate EXCEPT ![x] =
                         IF r # "ok" THEN "FAILED"
                         ELSE IF commit THEN "COMMITTED" ELSE "ROLLEDBACK"]
         /\ xlast' = XCall(x, op, raised(r), "", end_query(x, commit))

\* Transaction.start()
Start(x, r) ==
  /\ x \in xacts
  /\ start(x, r, "start")
  /\ UNCHANGED <<xacts, xmanaged, xblock>>

\* commit() and rollback() without the managed-mode guard.
Finish_unguarded(x, commit, r) ==
  /\ x \in xacts
  /\ finish(x, commit, r, IF commit THEN "commit" ELSE "rollback")
  /\ UNCHANGED <<xacts, xiso, xro, xdef, xnested, xid, uid, xmanaged, xblock>>

\* Transaction.commit() and Transaction.rollback()
Finish(x, commit, r) ==
  /\ x \in xacts
  /\ LET op == IF commit THEN "commit" ELSE "rollback" IN
     IF xmanaged[x]
       THEN /\ xlast' = XCall(x, op, "InterfaceError",
                              "cannot manually " \o op \o " from within a with block",
                              <<>>)
            /\ UNCHANGED <<xstate, top_xact>>
       ELSE finish(x, commit, r, op)
  /\ UNCHANGED <<xacts, xiso, xro, xdef, xnested, xid, uid, xmanaged, xblock>>

\* Transaction.__enter__: the block is entered only if start() returned.
Enter(x, r) ==
  /\ x \in xacts
  /\ IF xmanaged[x]
       THEN /\ xlast' = XCall(x, "enter", "InterfaceError",
                              "cannot enter context: already in a with block", <<>>)
            /\ UNCHANGED <<xstate, xiso, xro, xdef, xnested, xid, top_xact, uid,
                           xmanaged, xblock>>
       ELSE /\ xmanaged' = [xmanaged EXCEPT ![x] = TRUE]
            /\ start(x, r, "enter")
            /\ xblock' = [xblock EXCEPT ![x] = (xlast'.err = "none")]
  /\ UNCHANGED xacts

\* An __exit__ that clears the managed flag only after a statement that
\* returned.
Exit_no_finally(x, extype, r) ==
  /\ x \in xacts /\ xblock[x]
  /\ finish(x, ~extype, r, IF extype THEN "exit_exc" ELSE "exit")
  /\ xmanaged' = [xmanaged EXCEPT ![x] = (xlast'.err # "none")]
  /\ xblock' = [xblock EXCEPT ![x] = FALSE]
  /\ UNCHANGED <<xacts, xiso, xro, xdef, xnested, xid, uid>>

\* Transaction.__exit__, with (op exit_exc) or without (op exit) an
\* exception in flight.
Exit(x, extype, r) ==
  /\ x \in xacts /\ xblock[x]
  /\ finish(x, ~extype, r, IF extype THEN "exit_exc" ELSE "exit")
  /\ xmanaged' = [xmanaged EXCEPT ![x] = FALSE]
  /\ xblock' = [xblock EXCEPT ![x] = FALSE]
  /\ UNCHANGED <<xacts, xiso, xro, xdef, xnested, xid, uid>>

\* The pool is left alone while the connection's transactions run.
PoolIdle ==
  UNCHANGED <<poolvars, holdervars, convars, taskvars, last,
              workervars, closevars, othervars, argvars>>

\* The attributes of the transactions whose whole life is explored.
SomeAttrs == {<<"unset", "unset", "unset">>,
              <<"serializable", "true", "false">>,
              <<"repeatable_read", "unset", "true">>}

\* Transactions with a few attribute combinations, used in every way.
NextXact ==
  \/ \E x \in XactPair : \E a \in SomeAttrs :
       NewTransaction(x, a[1], a[2], a[3]) /\ PoolIdle
  \/ \E x \in Xacts : \E r \in Outcomes : Start(x, r) /\ PoolIdle
  \/ \E x \in Xacts : \E c \in BOOLEAN : \E r \in Outcomes :
       Finish(x, c, r) /\ PoolIdle
  \/ \E x \in Xacts : \E r \in Outcomes : Enter(x, r) /\ PoolIdle
  \/ \E x \in Xacts : \E e \in BOOLEAN : \E r \in Outcomes :
       Exit(x, e, r) /\ PoolIdle

\* One pool configuration is enough for the transactions of a connection.
InitXact == Init /\ user_concurrency = 1 /\ suggested = 0 /\ ~on_connect

SpecXact == InitXact /\ [][NextXact]_vars

\* Transactions with every attribute combination, started, committed and
\* rolled back by hand.
NextNested ==
  \/ \E x \in XactPair :
       \E i \in Isolations : \E ro \in Tri : \E de \in Tri :
         NewTransaction(x, i, ro, de) /\ PoolIdle
  \/ \E x \in Xacts : \E r \in Outcomes : Start(x, r) /\ PoolIdle
  \/ \E x \in Xacts : \E c \in BOOLEAN : \E r \in Outcomes :
       Finish(x, c, r) /\ PoolIdle

SpecNested == InitXact /\ [][NextNested]_vars

\* A first transaction with any attributes and the others with none of
\* their own, so that two savepoints can be open under one transaction.
NextStatements ==
  \/ \E i \in Isolations : \E ro \in Tri : \E de \in Tri :
       NewTransaction(1, i, ro, de) /\ PoolIdle
  \/ \E x \in Xacts \ {1} :
       NewTransaction(x, "unset", "unset", "unset") /\ PoolIdle
  \/ \E x \in Xacts : \E r \in {"ok", "QueryError"} : Start(x, r) /\ PoolIdle
  \/ \E x \in Xacts : \E c \in BOOLEAN : \E r \in {"ok", "QueryError"} :
       Finish(x, c, r) /\ PoolIdle

SpecStatements == InitXact /\ [][NextStatements]_vars

\* --------------------------------------------------------- the whole system
Next ==
  \/ PoolNext /\ UNCHANGED auxvars
  \/ NextValidate
  \/ NextClose
  \/ NextWorkers
  \/ NextXact
  \/ NextNested
  \/ NextStatements
  \/ NextArgs
  \/ NextAbandon
  \/ NextMisuse

Spec == Init /\ [][Next]_vars

\* ------------------------------------------------------------------ claims
CheckedOut == {t \in Tasks : pc[t] = "holding"}
Quiescent == \A t \in Tasks : pc[t] \in {"idle", "holding"}
Pinned == user_concurrency # 0

\* C1: with pinned concurrency N, callers releasing only what they hold:
\* at most N connections are checked out, free_size is N minus the number
\* checked out whenever no acquire or release is in progress (N before the
\* queue exists), and no acquire returns while N connections are checked out.
C1_Capacity ==
  /\ [](Pinned =>
         /\ Cardinality(CheckedOut) <= user_concurrency
         /\ (Quiescent =>
               get_free_size = user_concurrency - Cardinality(CheckedOut))
         /\ (~qinit => get_free_size = user_concurrency))
  /\ [][(Pinned /\ \E t \in Tasks : pc[t] # "holding" /\ pc'[t] = "holding")
          => Cardinality(CheckedOut) < user_concurrency]_vars

\* C1 witness: N = 2 connections are out and a third caller is suspended.
C1_Witness ==
  /\ user_concurrency = 2
  /\ Cardinality(CheckedOut) = 2
  /\ \E t \in Tasks : pc[t] = "waiting"
  /\ get_free_size = 0

Range(q) == {q[i] : i \in 1..Len(q)}
Count(q, x) == Cardinality({i \in 1..Len(q) : q[i] = x})
Holds(t) == pc[t] = "holding" /\ tcon[t] # NoCon

\* C2: under any interleaving of Pool.acquire and Pool.release, repeated
\* releases included, no connection is held by two callers at once and no
\* holder is in the availability queue while a caller holds its connection.
C2_OneOwner ==
  /\ \A t1, t2 \in Tasks : (t1 # t2 /\ Holds(t1) /\ Holds(t2)) => tcon[t1] # tcon[t2]
  /\ \A t \in Tasks : Holds(t) => cholder[tcon[t]] \notin Range(queue)

\* C3: callers suspended on the empty queue are served in arrival order, and
\* holders leave the queue in the order in which they were returned to it.
C3_Fifo ==
  [][/\ \A t \in Tasks : (pc[t] = "waiting" /\ pc'[t] # "waiting")
          => (t = Head(getters) /\ queue # <<>> /\ getters' = Tail(getters)
              /\ queue' = Tail(queue)
              /\ IF pc'[t] = "holding"
                   THEN cholder'[tcon'[t]] = Head(queue)
                   ELSE th'[t] = Head(queue))
     /\ \A t \in Tasks : (qinit /\ pc[t] = "idle" /\ pc'[t] \notin {"idle", "waiting"})
          => (getters = <<>> /\ queue # <<>> /\ queue' = Tail(queue)
              /\ IF pc'[t] = "holding"
                   THEN cholder'[tcon'[t]] = Head(queue)
                   ELSE th'[t] = Head(queue))
     /\ \/ queue' = queue
        \/ queue # <<>> /\ queue' = Tail(queue)
        \/ \E k \in 1..MaxConcurrency :
             /\ Len(queue') = Len(queue) + k
             /\ SubSeq(queue', 1, Len(queue)) = queue
    ]_vars

\* C3 witness: a caller that had to wait has been served while a later
\* caller is still suspended on the empty queue.
C3_Witness ==
  \E a, b \in Tasks :
    /\ a \in waited /\ pc[a] = "holding"
    /\ getters = <<b>> /\ queue = <<>>

\* C4: a second Pool.release on a connection whose holder is already free
\* raises nothing and changes no pool state.
C4_IdempotentRelease ==
  [][\A t \in Tasks :
       (/\ pc[t] = "idle" /\ tlast[t] # NoCon
        /\ \/ cholder[tlast[t]] = NoHolder
           \/ hfree[cholder[tlast[t]]]
        /\ last'[1] = t /\ last'[2] = "release_again")
       => (last'[3] = "none" /\ UNCHANGED <<queue, hcon, hgen, hfree, cstate, cholder>>)
    ]_vars

\* The caller's acquire has just returned a connection.
Acquired(t) == last = <<t, "acquire", "none">>

\* C5 as claimed: expire_connections() only increments the generation; an
\* acquire on a holder with a stale stamp closes the old connection and
\* returns a new one with the holder's stamp equal to the pool generation.
C5_StampAtReturn ==
  \A t \in Tasks : (Acquired(t) /\ told[t] # NoCon) =>
    /\ tcon[t] # NoCon /\ tcon[t] # told[t]
    /\ cstate[told[t]] = "closed" /\ cstate[tcon[t]] = "open"
    /\ hgen[cholder[tcon[t]]] = generation

\* C5 amended: as claimed, except that the holder's stamp equals the pool
\* generation when connect() finishes and the on-acquire callback starts;
\* at the return it may lag behind an expire_connections() that ran during
\* the callback.  Holders no caller works on keep their connection.
C5_Generation ==
  /\ [](\A t \in Tasks : (Acquired(t) /\ told[t] # NoCon) =>
          /\ tcon[t] # NoCon /\ tcon[t] # told[t]
          /\ cstate[told[t]] = "closed" /\ cstate[tcon[t]] = "open"
          /\ hcon[cholder[tcon[t]]] = tcon[t]
          /\ hgen[cholder[tcon[t]]] # NoGen
          /\ (~on_acquire => hgen[cholder[tcon[t]]] = generation))
  /\ [][/\ generation' # generation =>
             /\ generation' = generation + 1
             /\ UNCHANGED <<queue, getters, nholders, concurrency, hcon, hgen,
                            hfree, cstate, cholder, ncons, pc, tcon>>
        /\ \A t \in Tasks :
             (pc[t] \notin {"on_acquire", "holding"}
                /\ pc'[t] \in {"on_acquire", "holding"}) =>
               LET h == IF pc'[t] = "holding" THEN cholder'[tcon'[t]] ELSE th'[t]
               IN hgen'[h] = generation' /\ cstate'[hcon'[h]] = "open"
        /\ \A h \in Holders : hcon'[h] # hcon[h] =>
             \E t \in Tasks : th[t] = h \/ th'[t] = h
       ]_vars

\* C5 witness: a caller was handed a new connection in place of an expired one.
C5_Witness ==
  \E t \in Tasks :
    /\ Acquired(t) /\ told[t] # NoCon /\ tcon[t] # told[t]
    /\ cstate[told[t]] = "closed" /\ generation > 0

\* C6: releasing a connection whose holder's stamp is stale closes it
\* without running on-release: afterwards the holder has no connection, is
\* free and is in the queue exactly once.
C6_ExpiredRelease ==
  [][\A t \in Tasks :
       /\ (/\ Holds(t) /\ pc'[t] # "holding"
           /\ cholder[tcon[t]] # NoHolder
           /\ hgen[cholder[tcon[t]]] # generation)
          => (/\ pc'[t] = "release_close"
              /\ th'[t] = cholder[tcon[t]] /\ targ'[t] = tcon[t]
              /\ UNCHANGED <<queue, hcon, hfree, cstate>>)
       /\ (pc[t] = "release_close" /\ pc'[t] # "release_close")
          => (/\ last' = <<t, "release", "none">>
              /\ cstate'[targ[t]] = "closed" /\ cholder'[targ[t]] = NoHolder
              /\ hcon'[th[t]] = NoCon /\ hfree'[th[t]]
              /\ Count(queue', th[t]) = 1)
    ]_vars

\* C6 witness: an expired connection has just been released and closed.
C6_Witness ==
  \E t \in Tasks : \E h \in Holders : \E c \in Cons :
    /\ last = <<t, "release", "none">> /\ tlast[t] = c
    /\ cstate[c] = "closed" /\ hcon[h] = NoCon /\ hfree[h]
    /\ hgen[h] # NoGen /\ hgen[h] # generation /\ Count(queue, h) = 1

\* free_size accounts for every holder that is not checked out.
FreeSizeRestored ==
  (qinit /\ Quiescent) => get_free_size = nholders - Cardinality(CheckedOut)

\* C7: without explicit concurrency the pool reports 1 until the first
\* connection, then the server's suggestion K, with K holders, the new ones
\* free in the queue; with explicit concurrency N it always reports N.
C7_SuggestedConcurrency ==
  /\ [](/\ Pinned => get_concurrency = user_concurrency
        /\ (~Pinned /\ ncons = 0) => get_concurrency = 1
        /\ (~Pinned /\ suggested # 0 /\ working_addr) =>
             (get_concurrency = suggested /\ nholders = suggested
              /\ maxsize = suggested)
        /\ qinit => nholders = concurrency)
  /\ [][(qinit /\ nholders' > nholders) =>
          \A h \in (nholders + 1)..nholders' :
            /\ hfree'[h] /\ hcon'[h] = NoCon
            /\ Count(queue', h) = 1
       ]_vars

\* C7 witness: an unpinned pool has grown to the suggested two holders.
C7_Witness ==
  /\ user_concurrency = 0 /\ suggested = 2 /\ working_addr
  /\ get_concurrency = 2 /\ nholders = 2 /\ ncons = 1

\* C8: releasing a broken (closed) connection drops it from the holder and
\* queues the holder, restoring free size; an acquire never returns a closed
\* connection, so the holder's next acquire connects anew.
C8_BrokenSelfHeal ==
  /\ [](/\ \A t \in Tasks : Holds(t) =>
             /\ cholder[tcon[t]] # NoHolder
             /\ hcon[cholder[tcon[t]]] = tcon[t]
             /\ ~hfree[cholder[tcon[t]]]
        /\ \A t \in Tasks : Acquired(t) => (Holds(t) /\ cstate[tcon[t]] = "open")
        /\ FreeSizeRestored)
  /\ [][\A t \in Tasks :
          (Holds(t) /\ cstate[tcon[t]] = "closed" /\ pc'[t] # "holding") =>
            LET h == cholder[tcon[t]] IN
            /\ last' = <<t, "release", "none">>
            /\ hcon'[h] = NoCon /\ hfree'[h]
            /\ Count(queue', h) = 1
            /\ Len(queue') = Len(queue) + 1
       ]_vars

\* C8 witness: a holder whose connection broke serves a new, open connection.
C8_Witness ==
  \E t \in Tasks : \E c \in Cons :
    /\ Acquired(t) /\ cstate[tcon[t]] = "open"
    /\ c # tcon[t] /\ cstate[c] = "closed" /\ cholder[c] = cholder[tcon[t]]

\* C9: when holder.acquire() fails (connect, on-connect or on-acquire), the
\* caller gets the error and the holder is free and back in the queue once,
\* so free size is what it was before the acquire.
C9_NoLeakOnFailure ==
  /\ [][\A t \in Tasks :
          (pc[t] \in {"connect", "on_connect", "on_acquire"} /\ pc'[t] = "idle") =>
            /\ last'[1] = t /\ last'[2] = "acquire" /\ last'[3] # "none"
            /\ hfree'[th[t]]
            /\ Count(queue', th[t]) = 1
            /\ Len(queue') = Len(queue) + 1
       ]_vars
  /\ [](FreeSizeRestored /\ Len(queue) <= maxsize)

\* C9 witness: on a concurrency-1 pool a failed acquire left the holder queued.
C9_Witness ==
  \E t \in Tasks :
    /\ last[1] = t /\ last[2] = "acquire" /\ last[3] # "none"
    /\ concurrency = 1 /\ nholders = 1 /\ queue = <<1>> /\ hfree[1]

\* C10: when on-connect or on-acquire raises, the connection it was given is
\* closed when the error reaches the caller, and a callback is only ever
\* invoked with a connection that is not closed.
C10_CallbackErrorCloses ==
  /\ [][\A t \in Tasks :
          (pc[t] \in {"on_connect", "on_acquire"}
             /\ last' = <<t, "acquire", "CallbackError">>) =>
            (cstate'[targ[t]] = "closed" /\ cholder'[targ[t]] = NoHolder
             /\ \A h \in Holders : hcon'[h] # targ[t])
       ]_vars
  /\ [](\A t \in Tasks : pc[t] \in {"on_connect", "on_acquire"} =>
          (targ[t] # NoCon /\ cstate[targ[t]] = "open"))

\* C10 witness: after a callback error closed a connection, the callback
\* runs again on a concurrency-1 pool, with another connection.
C10_Witness ==
  \E t \in Tasks : \E c \in Cons :
    /\ pc[t] = "on_acquire" /\ concurrency = 1
    /\ cstate[c] = "closed" /\ c # targ[t] /\ cstate[targ[t]] = "open"

\* C11: the on-connect callback is invoked for a connection in the step
\* that establishes it and at no other time, every new connection gets it,
\* and when an on-acquire callback starts for a connection no on-connect
\* callback for that connection is running.
C11_OnConnectOnce ==
  /\ [][/\ \A t \in Tasks :
            (pc[t] # "on_connect" /\ pc'[t] = "on_connect") =>
              /\ pc[t] = "connect" /\ targ'[t] # NoCon
              /\ cstate[targ'[t]] = "none" /\ cstate'[targ'[t]] = "open"
        /\ \A c \in Cons :
            (on_connect /\ cstate[c] = "none" /\ cstate'[c] # "none") =>
              \E t \in Tasks : pc[t] = "connect" /\ pc'[t] = "on_connect"
                               /\ targ'[t] = c
        /\ \A t \in Tasks :
            (pc[t] # "on_acquire" /\ pc'[t] = "on_acquire") =>
              /\ targ'[t] # NoCon /\ cstate'[targ'[t]] = "open"
              /\ \A u \in Tasks : ~(pc'[u] = "on_connect" /\ targ'[u] = targ'[t])
       ]_vars
  /\ [](\A t \in Tasks : \A u \in Tasks :
          (t # u /\ pc[t] = "on_connect" /\ pc[u] = "on_connect") =>
            targ[t] # targ[u])

\* C11 witness: the on-acquire callback runs for a connection that an
\* earlier caller already used and released, with on-connect registered.
C11_Witness ==
  \E t \in Tasks \ Repeaters :
    /\ on_connect /\ pc[t] = "on_acquire"
    /\ targ[t] # NoCon /\ \E r \in Repeaters : tlast[r] = targ[t]

AllDone == started = Tasks /\ \A t \in Tasks : pc[t] = "idle"

\* C12: with pinned concurrency N <= W, no failure and no expiry, W one-shot
\* workers never create more than N connections; when all have finished,
\* exactly N connections were created, each worker's on-acquire callback
\* ran exactly once, and free size is N.
C12_WorkersShareN ==
  (Pinned /\ user_concurrency <= MaxTasks) =>
    /\ ncons <= user_concurrency
    /\ \A t \in Tasks : cbcount[t] <= 1
    /\ AllDone =>
         /\ ncons = user_concurrency
         /\ Cardinality({c \in Cons : cstate[c] = "open"}) = user_concurrency
         /\ get_free_size = user_concurrency
         /\ on_acquire => \A t \in Tasks : cbcount[t] = 1

\* C12 witness: three workers have finished on a pool pinned to two.
C12_Witness ==
  /\ user_concurrency = 2 /\ on_acquire /\ AllDone
  /\ ncons = 2 /\ \A t \in Tasks : cbcount[t] = 1

Acquiring(t) == pc[t] \in {"waiting", "connect", "on_connect", "on_acquire"}

\* C13: under fair scheduling, with every held connection eventually
\* released and no failing connect or callback, every caller suspended in
\* Pool.acquire eventually holds a connection, and every caller that holds
\* one eventually finishes its release.
C13_NoAcquireDeadlock ==
  /\ \A t \in Tasks : Acquiring(t) ~> Holds(t)
  /\ \A t \in Tasks : Holds(t) ~> (pc[t] = "idle")

\* C13 witness: with concurrency 1, a caller that had to wait for the only
\* connection now holds it.
C13_Witness ==
  \E t \in Tasks :
    /\ concurrency = 1 /\ nholders = 1
    /\ Holds(t) /\ t \in waited

\* C14: a graceful close that started while holders were checked out has
\* not completed as long as one of them was never released since, and in
\* the step in which the close completes every holder's free signal is set.
C14_CloseWaitsForRelease ==
  /\ [](cpc = "done" => cheld = {})
  /\ [][(cpc = "waiting" /\ cpc' = "done") =>
          \A h \in 1..nholders : hfree'[h]]_vars

\* C14 witness: the close completed after waiting for a holder that was
\* checked out when it started.
C14_Witness ==
  /\ cpc = "done" /\ closed
  /\ cstart # {} /\ cheld = {}
  /\ \A h \in 1..nholders : hfree[h]

\* What Pool.release may change: queue, holders, free signals, connections,
\* of this pool and of the other one.
PoolUntouched ==
  UNCHANGED <<queue, nholders, hcon, hgen, hfree, cstate, cholder, getters,
              ofree, oqueue>>

\* C15: Pool.release of another pool's connection or of a value that is no
\* connection raises InterfaceError and changes neither pool; of a connection
\* without a holder it returns silently and changes nothing; of a connection
\* with a holder of this pool it goes to that holder's release, which frees
\* and queues a checked-out holder with a live connection (no on-release
\* callback) and raises InternalClientError for a holder that is free.
C15_ReleaseValidates ==
  [][\A t \in Tasks :
       /\ (last'[1] = t /\ last'[2] \in {"release_foreign", "release_invalid"}) =>
            (last'[3] = "InterfaceError" /\ PoolUntouched)
       /\ (pc[t] = "idle" /\ last'[1] = t /\ last'[2] = "release_again"
             /\ cholder[tlast[t]] = NoHolder) =>
            (last'[3] = "none" /\ PoolUntouched)
       /\ (pc[t] = "idle" /\ last'[1] = t /\ last'[2] = "release_again"
             /\ cholder[tlast[t]] # NoHolder /\ hfree[cholder[tlast[t]]]) =>
            (last'[3] = "InternalClientError" /\ PoolUntouched)
       /\ (Holds(t) /\ pc'[t] = "idle" /\ ~on_release
             /\ cstate[tcon[t]] = "open" /\ cholder[tcon[t]] # NoHolder
             /\ ~hfree[cholder[tcon[t]]]) =>
            LET h == cholder[tcon[t]] IN
            /\ last' = <<t, "release", "none">>
            /\ hfree'[h] /\ Count(queue', h) = 1
     ]_vars

\* C15 witness: a foreign connection was refused while this pool has a
\* holder checked out and a connection that lost its holder.
C15_Witness ==
  \E t \in Tasks :
    /\ last = <<t, "release_foreign", "InterfaceError">>
    /\ \E h \in 1..nholders : ~hfree[h]
    /\ ~ofree /\ oqueue = 0

Terminal(x) == xstate[x] \in {"COMMITTED", "ROLLEDBACK", "FAILED"}

\* The step is a call of one of ops on transaction x.
Called(x, ops) == xlast' # xlast /\ xlast'.x = x /\ xlast'.op \in ops

\* C16: on a COMMITTED, ROLLEDBACK or FAILED transaction every start, commit
\* or rollback raises an InterfaceError whose message names that state,
\* executes no statement and changes neither the state nor the connection's
\* top-level reference; and FAILED is entered only by a call whose
\* statement was executed and raised.
C16_Terminality ==
  /\ [][\A x \in Xacts :
          (Terminal(x) /\ Called(x, {"start", "commit", "rollback"})) =>
            /\ xlast'.err = "InterfaceError"
            /\ xlast'.msg = check_state_base(x)
            /\ xlast'.query = <<>>
            /\ xstate'[x] = xstate[x]
            /\ top_xact' = top_xact
       ]_vars
  /\ [][\A x \in Xacts :
          (xstate[x] # "FAILED" /\ xstate'[x] = "FAILED") =>
            /\ Called(x, {"start", "commit", "rollback", "enter", "exit", "exit_exc"})
            /\ xlast'.query # <<>>
            /\ xlast'.err \in Outcomes \ {"ok"}
       ]_vars

\* C16 without the message: the rest of the claim.
C16_TerminalRejects ==
  [][\A x \in Xacts :
       (Terminal(x) /\ Called(x, {"start", "commit", "rollback"})) =>
         /\ xlast'.err = "InterfaceError"
         /\ (~xmanaged[x] => xlast'.msg = check_state_base(x))
         /\ xlast'.query = <<>>
         /\ xstate'[x] = xstate[x]
         /\ top_xact' = top_xact
    ]_vars

\* C17 as claimed: a transaction's state changes only from NEW to STARTED
\* and from STARTED to COMMITTED, ROLLEDBACK or FAILED.
C17_OnlyFromStarted ==
  [][\A x \in Xacts :
       (xstate'[x] # xstate[x]) =>
         \/ (xstate[x] = "NEW" /\ xstate'[x] = "STARTED")
         \/ (xstate[x] = "STARTED" /\ Terminal(x)')
    ]_vars

\* C17 amended: the state changes are NEW to STARTED, NEW to FAILED (a start
\* whose statement raised) and STARTED to COMMITTED, ROLLEDBACK or FAILED;
\* terminal states are never left; commit and rollback on a NEW transaction
\* and start on a STARTED one raise InterfaceError and leave the state.
C17_Transitions ==
  /\ [][\A x \in Xacts :
          (xstate'[x] # xstate[x]) =>
            \/ (xstate[x] = "NEW" /\ xstate'[x] = "STARTED")
            \/ (xstate[x] = "NEW" /\ xstate'[x] = "FAILED"
                  /\ Called(x, {"start", "enter"}) /\ xlast'.query # <<>>
                  /\ xlast'.err \in Outcomes \ {"ok"})
            \/ (xstate[x] = "STARTED" /\ Terminal(x)')
       ]_vars
  /\ [][\A x \in Xacts :
          /\ (xstate[x] = "NEW" /\ Called(x, {"commit", "rollback"})) =>
               (xlast'.err = "InterfaceError" /\ xlast'.query = <<>>
                /\ xstate'[x] = "NEW")
          /\ (xstate[x] = "STARTED" /\ Called(x, {"start"})) =>
               (xlast'.err = "InterfaceError" /\ xlast'.query = <<>>
                /\ xstate'[x] = "STARTED")
       ]_vars

\* C17 witness: a start whose statement raised took a NEW transaction to FAILED.
C17_Witness ==
  \E x \in Xacts :
    /\ xstate[x] = "FAILED"
    /\ xlast.x = x /\ xlast.op = "start" /\ xlast.err = "QueryError"

\* The state a call reaches when its statement returned.
DoneState(query) ==
  IF query[1] \in {"COMMIT;", "RELEASE SAVEPOINT "} THEN "COMMITTED"
  ELSE IF query[1] \in {"ROLLBACK;", "ROLLBACK TO SAVEPOINT "} THEN "ROLLEDBACK"
  ELSE "STARTED"

\* C18: a start, commit or rollback that executed its statement ends in
\* one of two ways: the statement raised, the state is FAILED and the caller
\* gets that error (not an InterfaceError, not a return); or it returned, the
\* caller gets no error and the state is STARTED, COMMITTED or ROLLEDBACK
\* according to the statement. A call that executed nothing leaves the state.
C18_FailureSetsFailed ==
  [][\A x \in Xacts :
       Called(x, {"start", "commit", "rollback", "enter", "exit", "exit_exc"}) =>
         IF xlast'.query = <<>>
           THEN xlast'.err = "InterfaceError" /\ xstate'[x] = xstate[x]
           ELSE \/ /\ xlast'.err \in Outcomes \ {"ok"}
                   /\ xstate'[x] = "FAILED"
                \/ /\ xlast'.err = "none"
                   /\ xstate'[x] = DoneState(xlast'.query)
                   /\ xlast'.op \in {"start", "enter"} => xstate'[x] = "STARTED"
                   /\ xlast'.op = "commit" => xstate'[x] = "COMMITTED"
                   /\ xlast'.op = "rollback" => xstate'[x] = "ROLLEDBACK"
    ]_vars

\* C18 witness: a commit was cancelled and left the transaction FAILED.
C18_Witness ==
  \E x \in Xacts :
    /\ xlast = XCall(x, "commit", "CancelledError", "", <<"COMMIT;">>)
    /\ xstate[x] = "FAILED"

\* The step is a start() of the NEW transaction x under another top-level
\* transaction.
NestedStart(x) ==
  /\ x \in xacts /\ xstate[x] = "NEW"
  /\ top_xact # NoXact /\ top_xact # x
  /\ Called(x, {"start"})

ConflictMessages ==
  {"nested transaction has a different isolation level",
   "nested transaction has a different read-write spec",
   "nested transaction has a different deferrable spec"}

\* An attribute x sets explicitly differs from the top-level one's value.
DiffersFromTop(x) ==
  \/ (xiso[x] # "unset" /\ xiso[x] # xiso[top_xact])
  \/ (xro[x] # "unset" /\ xro[x] # xro[top_xact])
  \/ (xdef[x] # "unset" /\ xdef[x] # xdef[top_xact])

\* C19: a nested start with an explicit isolation, readonly or deferrable
\* that differs from the top-level transaction's value raises InterfaceError,
\* executes nothing, and leaves the top-level transaction and the
\* connection's top-level reference as they were; a nested start with all
\* three unset is not rejected, declares a savepoint, and the transaction's
\* three attributes become the top-level transaction's.
C19_NestedConsistency ==
  [][\A x \in Xacts :
       /\ (NestedStart(x) /\ DiffersFromTop(x)) =>
            /\ xlast'.err = "InterfaceError" /\ xlast'.msg \in ConflictMessages
            /\ xlast'.query = <<>>
            /\ xstate'[x] = "NEW" /\ ~xnested'[x]
            /\ top_xact' = top_xact
            /\ xstate'[top_xact] = xstate[top_xact]
            /\ xiso'[top_xact] = xiso[top_xact]
            /\ xro'[top_xact] = xro[top_xact]
            /\ xdef'[top_xact] = xdef[top_xact]
            /\ xnested'[top_xact] = xnested[top_xact]
       /\ (NestedStart(x) /\ xiso[x] = "unset" /\ xro[x] = "unset"
             /\ xdef[x] = "unset") =>
            /\ xlast'.err # "InterfaceError"
            /\ xlast'.query = <<"DECLARE SAVEPOINT ", ToString(xid'[x]), ";">>
            /\ xnested'[x] /\ xid'[x] # NoId
            /\ xiso'[x] = xiso[top_xact]
            /\ xro'[x] = xro[top_xact]
            /\ xdef'[x] = xdef[top_xact]
            /\ top_xact' = top_xact
            /\ xlast'.err = "none" => xstate'[x] = "STARTED"
    ]_vars

\* C19 witness: a nested start was rejected for its isolation level while
\* the top-level transaction is active.
C19_Witness ==
  \E x \in Xacts :
    /\ xlast.x = x /\ xlast.op = "start" /\ xlast.err = "InterfaceError"
    /\ xlast.msg = "nested transaction has a different isolation level"
    /\ top_xact # NoXact /\ top_xact # x /\ is_active(top_xact)
    /\ xiso[top_xact] = "serializable" /\ xiso[x] = "repeatable_read"

\* An attribute that x and the top-level transaction both set explicitly,
\* with different values.
BothExplicitDiffer(x) ==
  \/ (xiso[x] # "unset" /\ xiso[top_xact] # "unset" /\ xiso[x] # xiso[top_xact])
  \/ (xro[x] # "unset" /\ xro[top_xact] # "unset" /\ xro[x] # xro[top_xact])
  \/ (xdef[x] # "unset" /\ xdef[top_xact] # "unset" /\ xdef[x] # xdef[top_xact])

RejectedForConflict ==
  xlast'.err = "InterfaceError" /\ xlast'.msg \in ConflictMessages

\* C20: a nested start is rejected for an attribute conflict exactly when
\* some attribute is set explicitly by both transactions with different
\* values; an attribute the top-level transaction left unset never causes
\* the rejection.
C20_ConflictIffBothExplicit ==
  [][\A x \in Xacts :
       NestedStart(x) => (RejectedForConflict <=> BothExplicitDiffer(x))
    ]_vars

\* C20 as the code decides: the nested start is rejected exactly when an
\* attribute it sets explicitly differs from the top-level transaction's
\* value, set or unset.
C20_RejectedIffDiffers ==
  [][\A x \in Xacts :
       NestedStart(x) => (RejectedForConflict <=> DiffersFromTop(x))
    ]_vars

\* The text of a statement: its pieces put together.
Text(query) ==
  LET j[i \in 0..Len(query)] == IF i = 0 THEN "" ELSE j[i - 1] \o query[i]
  IN j[Len(query)]

\* The step is a call of one of ops on x that issued a statement.
Issued(x, ops) == Called(x, ops) /\ xlast'.query # <<>>

\* C21: a top-level start issues START TRANSACTION, then the isolation
\* words, the read-only or read-write words and the deferrable words of the
\* attributes that are set, in that order, then ';'; its commit and rollback
\* issue COMMIT; and ROLLBACK;. A nested start issues DECLARE SAVEPOINT with
\* an id no transaction of the connection has, and its commit and rollback
\* issue RELEASE SAVEPOINT and ROLLBACK TO SAVEPOINT with that id. Only
\* nested transactions have a savepoint id.
C21_Statements ==
  [][\A x \in Xacts :
       /\ (Issued(x, {"start"}) /\ top_xact = NoXact) =>
            /\ Text(xlast'.query) =
                 "START TRANSACTION"
                 \o (CASE xiso[x] = "repeatable_read" -> " ISOLATION REPEATABLE READ"
                       [] xiso[x] = "serializable" -> " ISOLATION SERIALIZABLE"
                       [] xiso[x] = "unset" -> "")
                 \o (CASE xro[x] = "true" -> " READ ONLY"
                       [] xro[x] = "false" -> " READ WRITE"
                       [] xro[x] = "unset" -> "")
                 \o (CASE xdef[x] = "true" -> " DEFERRABLE"
                       [] xdef[x] = "false" -> " NOT DEFERRABLE"
                       [] xdef[x] = "unset" -> "")
                 \o ";"
            /\ ~xnested'[x] /\ xid'[x] = NoId
       /\ (Issued(x, {"start"}) /\ top_xact # NoXact) =>
            /\ xnested'[x] /\ xid'[x] # NoId
            /\ Text(xlast'.query) = "DECLARE SAVEPOINT " \o ToString(xid'[x]) \o ";"
            /\ \A y \in Xacts : xid[y] # xid'[x]
       /\ (Issued(x, {"commit"}) /\ ~xnested[x]) => Text(xlast'.query) = "COMMIT;"
       /\ (Issued(x, {"rollback"}) /\ ~xnested[x]) =>
            Text(xlast'.query) = "ROLLBACK;"
       /\ (Issued(x, {"commit"}) /\ xnested[x]) =>
            Text(xlast'.query) = "RELEASE SAVEPOINT " \o ToString(xid[x]) \o ";"
       /\ (Issued(x, {"rollback"}) /\ xnested[x]) =>
            Text(xlast'.query) = "ROLLBACK TO SAVEPOINT " \o ToString(xid[x]) \o ";"
       /\ (xid[x] # NoId) => (xnested[x] /\ xid'[x] = xid[x])
       /\ (xid'[x] # NoId) => xnested'[x]
    ]_vars

\* C21 witness: two savepoints are open under a serializable read-only
\* transaction, and the second has just been released.
C21_Witness ==
  /\ xiso[1] = "serializable" /\ xro[1] = "true" /\ xdef[1] = "unset"
  /\ is_active(1) /\ ~xnested[1] /\ top_xact = 1
  /\ xnested[2] /\ xnested[3] /\ xid[2] # xid[3]
  /\ is_active(2) /\ xstate[3] = "COMMITTED"
  /\ xlast.x = 3 /\ xlast.op = "commit"
  /\ Text(xlast.query) = "RELEASE SAVEPOINT " \o ToString(xid[3]) \o ";"

\* C22: an exit from the block of a STARTED transaction issues the rollback
\* statement when an exception is in flight and the commit statement
\* otherwise; the transaction ends ROLLEDBACK or COMMITTED when the
\* statement returned and FAILED, with the statement's error raised, when it
\* did not; the managed flag is false afterwards in every case.
C22_ScopedExit ==
  [][\A x \in Xacts :
       (Called(x, {"exit", "exit_exc"}) /\ xstate[x] = "STARTED") =>
         /\ xmanaged[x] /\ ~xmanaged'[x]
         /\ xlast'.op = "exit" =>
              /\ Text(xlast'.query) \in
                   {"COMMIT;", "RELEASE SAVEPOINT " \o ToString(xid[x]) \o ";"}
              /\ xlast'.err = "none" => xstate'[x] = "COMMITTED"
         /\ xlast'.op = "exit_exc" =>
              /\ Text(xlast'.query) \in
                   {"ROLLBACK;", "ROLLBACK TO SAVEPOINT " \o ToString(xid[x]) \o ";"}
              /\ xlast'.err = "none" => xstate'[x] = "ROLLEDBACK"
         /\ xlast'.err # "none" =>
              (xlast'.err \in Outcomes \ {"ok"} /\ xstate'[x] = "FAILED")
    ]_vars

\* C22 witness: the rollback of an exit with an exception in flight raised;
\* the transaction is FAILED and no longer managed.
C22_Witness ==
  \E x \in Xacts :
    /\ xlast = XCall(x, "exit_exc", "QueryError", "", <<"ROLLBACK;">>)
    /\ xstate[x] = "FAILED" /\ ~xmanaged[x]

\* C23: on a managed transaction a manual commit, a manual rollback and an
\* enter raise InterfaceError, issue no statement and leave the state, the
\* managed flag and the connection's top-level reference as they were.
C23_ManagedRejects ==
  [][\A x \in Xacts :
       (xmanaged[x] /\ Called(x, {"commit", "rollback", "enter"})) =>
         /\ xlast'.err = "InterfaceError"
         /\ xlast'.query = <<>>
         /\ xstate'[x] = xstate[x]
         /\ xmanaged'[x]
         /\ top_xact' = top_xact
    ]_vars

\* C23 witness: a manual commit inside the block of a started top-level
\* transaction was rejected.
C23_Witness ==
  \E x \in Xacts :
    /\ xlast.x = x /\ xlast.op = "commit" /\ xlast.err = "InterfaceError"
    /\ xlast.msg = "cannot manually commit from within a with block"
    /\ xmanaged[x] /\ xblock[x] /\ is_active(x) /\ top_xact = x

\* C24: between calls, the connection's top-level reference names only a
\* STARTED transaction, and a start made while no transaction is STARTED
\* is top-level: it issues START TRANSACTION.
C24_TopReference ==
  /\ [](top_xact # NoXact => xstate[top_xact] = "STARTED")
  /\ [][\A x \in Xacts :
          (Issued(x, {"start", "enter"})
             /\ \A y \in Xacts : xstate[y] # "STARTED") =>
            xlast'.query[1] \in {"START TRANSACTION",
                                 "START TRANSACTION ISOLATION REPEATABLE READ",
                                 "START TRANSACTION ISOLATION SERIALIZABLE"}
       ]_vars

\* C25: the managed flag is set only on a transaction whose enter returned
\* and whose exit has not finished, and elsewhere a manual commit or
\* rollback is not rejected for being in a block.
C25_ManagedOnlyInBlock ==
  /\ [](\A x \in Xacts : xmanaged[x] => xblock[x])
  /\ [][\A x \in Xacts :
          (~xblock[x] /\ Called(x, {"commit", "rollback"})) =>
            xlast'.msg \notin
              {"cannot manually commit from within a with block",
               "cannot manually rollback from within a with block"}
       ]_vars

\* C26: every holder is in the availability queue at most once, its free
\* signal is set exactly when it is in the queue, and the queue never holds
\* more holders than its capacity.
C26_HolderQueue ==
  /\ \A h \in 1..nholders :
       /\ Count(queue, h) <= 1
       /\ hfree[h] <=> (Count(queue, h) = 1)
  /\ Len(queue) <= maxsize

\* C26 without the 'only if': what the code keeps. A queued holder has its
\* signal set, and a holder whose signal is set is queued or is one an
\* acquire took from the queue and has not returned yet.
C26_QueuedIsFree ==
  /\ \A h \in 1..nholders :
       /\ Count(queue, h) <= 1
       /\ (Count(queue, h) = 1) => hfree[h]
       /\ (hfree[h] /\ Count(queue, h) = 0) =>
            \E t \in Tasks :
              th[t] = h /\ pc[t] \in {"connect", "on_connect", "on_acquire"}
  /\ Len(queue) <= maxsize

\* C28: when Pool.acquire returns, the caller has a connection, the
\* connection is the current one of a holder, its back-reference names that
\* holder, and the holder's free signal is cleared.
C28_AcquirePostcondition ==
  \A t \in Tasks :
    Acquired(t) =>
      /\ tcon[t] # NoCon
      /\ \E h \in 1..nholders :
           hcon[h] = tcon[t] /\ cholder[tcon[t]] = h /\ ~hfree[h]

\* The step is a Connection.terminate() by caller t on connection c.
Terminated(t, c) ==
  /\ last' = <<t, "terminate", "none">>
  /\ last # last' \/ pc[t] \in {"holding", "on_connect", "on_acquire", "on_release"}
  /\ c = (IF pc[t] = "holding" THEN tcon[t] ELSE targ[t])

\* What terminating the open connection c of holder h does to both.
Detached(h, c) ==
  /\ cstate'[c] = "closed"
  /\ cholder'[c] = NoHolder
  /\ hcon'[h] = NoCon
  /\ hfree'[h]
  /\ Count(queue', h) = Count(queue, h) + (IF hfree[h] THEN 0 ELSE 1)

\* C29: Pool.terminate() on a pool that is not closed marks it closed and
\* terminates the connection of every holder; terminating an open connection
\* that a holder owns detaches it from the holder, clears the holder's
\* connection and queues the holder once if it was checked out and not at
\* all if it was free; Connection.terminate() on a closed connection and
\* Pool.terminate() on a closed pool change nothing.
C29_Terminate ==
  /\ [][last' = <<0, "pool_terminate", "none">> =>
          IF closed
            THEN UNCHANGED <<poolvars, holdervars, convars, taskvars>>
            ELSE /\ closed'
                 /\ \A h \in 1..nholders :
                      LET c == hcon[h] IN
                      /\ c # NoCon => cstate'[c] = "closed"
                      /\ (c # NoCon /\ cstate[c] = "open" /\ cholder[c] = h) =>
                           Detached(h, c)
                      /\ c = NoCon =>
                           (hcon'[h] = NoCon /\ hfree'[h] = hfree[h]
                            /\ Count(queue', h) = Count(queue, h))
       ]_vars
  /\ [][\A t \in Tasks : \A c \in Cons :
          Terminated(t, c) =>
            /\ cstate[c] = "closed" =>
                 UNCHANGED <<poolvars, holdervars, convars, taskvars>>
            /\ (cstate[c] = "open" /\ cholder[c] # NoHolder) =>
                 /\ Detached(cholder[c], c)
                 /\ \A h \in Holders \ {cholder[c]} :
                      /\ hcon'[h] = hcon[h] /\ hfree'[h] = hfree[h]
                      /\ Count(queue', h) = Count(queue, h)
       ]_vars

\* C29 witness: Pool.terminate() has just closed a connection that a caller
\* holds and put its holder back in the queue.
C29_Witness ==
  /\ last = <<0, "pool_terminate", "none">> /\ closed
  /\ \E t \in Tasks :
       /\ pc[t] = "holding" /\ tcon[t] # NoCon
       /\ cstate[tcon[t]] = "closed" /\ cholder[tcon[t]] = NoHolder
  /\ \A h \in 1..nholders : hcon[h] = NoCon /\ hfree[h] /\ Count(queue, h) = 1

\* The connections a caller's connect has created and not yet returned.
InConnect ==
  {targ[t] : t \in {u \in Tasks : pc[u] \in {"on_connect", "ensure_on_connect"}}}

\* C27: every holder is named by the back-reference of at most one live
\* connection, and every live connection that its connect has returned
\* names a holder whose current connection it is.
C27_Ownership ==
  /\ \A h \in 1..nholders :
       Cardinality({c \in Cons : cstate[c] = "open" /\ cholder[c] = h}) <= 1
  /\ \A c \in Cons \ InConnect :
       cstate[c] = "open" =>
         (cholder[c] # NoHolder /\ hcon[cholder[c]] = c)

\* The step is one of caller t's ensure_connected.
EnsureActs(t) ==
  \/ pc[t] = "idle" /\ pc'[t] = "ensure_connect"
  \/ pc[t] = "idle" /\ last' = <<t, "ensure_connected", "none">>
  \/ pc[t] \in {"ensure_connect", "ensure_on_connect"} /\ pc'[t] # pc[t]

\* Some holder has a connection that is not closed.
HasLive == \E h \in 1..nholders : hcon[h] # NoCon /\ cstate[hcon[h]] = "open"

\* The call returns at once, creating nothing and changing no holder and
\* no connection.
EnsureTrivial(t) ==
  /\ last' = <<t, "ensure_connected", "none">> /\ pc'[t] = "idle"
  /\ ncons' = ncons /\ cstate' = cstate /\ cholder' = cholder
  /\ \A h \in 1..nholders : hcon'[h] = hcon[h] /\ hgen'[h] = hgen[h]

\* The call's connect: one connection is created per call, and on success
\* it is the first holder's, with the pool's generation as its stamp.
EnsureConnects(t) ==
  /\ pc[t] = "idle" => (pc'[t] = "ensure_connect" /\ ncons' = ncons)
  /\ pc[t] = "ensure_connect" =>
       (ncons' = ncons \/ (ncons' = ncons + 1 /\ cstate[ncons'] = "none"))
  /\ pc[t] = "ensure_on_connect" => ncons' = ncons
  /\ (pc[t] # "idle" /\ last' = <<t, "ensure_connected", "none">>) =>
       LET c == IF pc[t] = "ensure_connect" THEN ncons' ELSE targ[t] IN
       /\ ncons' = IF pc[t] = "ensure_connect" THEN ncons + 1 ELSE ncons
       /\ hcon'[1] = c /\ cholder'[c] = 1 /\ cstate'[c] = "open"
       /\ hgen'[1] = generation

\* C30 as claimed: on an initialised pool ensure_connected returns at once
\* if a holder has a live connection, else it creates one connection on the
\* first holder, stamped with the pool's generation; either way the queue
\* and every holder's free signal stay as they were.
C30_EnsureFrame ==
  [][\A t \in Tasks :
       (qinit /\ EnsureActs(t)) =>
         /\ IF pc[t] = "idle" /\ HasLive THEN EnsureTrivial(t) ELSE EnsureConnects(t)
         /\ queue' = queue /\ hfree' = hfree
    ]_vars

\* C30 amended: as C30, except that the queue and the signals of the
\* holders that exist stay as they were, while holders created by the call
\* (the first use of the pool, or the server's suggested concurrency taken
\* from the first connection) are appended to the queue with their signals
\* set.
C30_EnsureEffect ==
  [][\A t \in Tasks :
       EnsureActs(t) =>
         /\ IF pc[t] = "idle" /\ HasLive THEN EnsureTrivial(t) ELSE EnsureConnects(t)
         /\ Len(queue') = Len(queue) + (nholders' - nholders)
         /\ \A i \in 1..Len(queue') :
              IF i <= Len(queue) THEN queue'[i] = queue[i]
              ELSE queue'[i] = nholders + (i - Len(queue))
         /\ \A h \in Holders :
              hfree'[h] = IF h \in (nholders + 1)..nholders' THEN TRUE ELSE hfree[h]
    ]_vars

\* C30 witness: ensure_connected has connected the first holder of a pool
\* nobody has acquired from, and the pool has grown to the server's
\* suggestion: both holders are in the queue.
C30_Witness ==
  \E t \in Tasks :
    /\ last = <<t, "ensure_connected", "none">>
    /\ user_concurrency = 0 /\ suggested = MaxConcurrency
    /\ nholders = MaxConcurrency /\ queue = [i \in 1..MaxConcurrency |-> i]
    /\ hcon[1] # NoCon /\ cholder[hcon[1]] = 1 /\ hgen[1] = generation
    /\ \A u \in Tasks : pc[u] = "idle" /\ tcon[u] = NoCon

\* ------------------------------------------------------------ C31
\* The caller's acquire begins a new connection in this step.
StartsConnect(t) == pc[t] # "connect" /\ pc'[t] = "connect"

\* C31, the choice: a new connection is a first-connection resolution exactly
\* when no working address is remembered at its start.
C31_Selects ==
  [][\A t \in Tasks : StartsConnect(t) => (tfirst'[t] <=> ~working_addr)]_vars

\* C31, the frame: set_connect_args() forgets the working address and leaves
\* the holders, their connections, the queue and the generation as they were.
C31_Frame ==
  [][connect_args' # connect_args =>
       /\ ~working_addr'
       /\ UNCHANGED <<holdervars, convars, queue, nholders, generation>>
    ]_vars

\* C31, the consequence: a new connection begun after set_connect_args()
\* resolves the new arguments, so that every new connection is made either by
\* resolving the current arguments or with an address resolved from them.
C31_CurrentArgs ==
  [][\A t \in Tasks : StartsConnect(t) => targs'[t] = connect_args]_vars

\* C31: first-connection resolution runs only when no working address is
\* remembered, later connections reuse the remembered triple, and
\* set_connect_args() clears the triple, changing nothing else of the
\* holders, connections, queue and generation, so that the next new
\* connection resolves the new arguments.
C31_WorkingAddress == C31_Selects /\ C31_Frame /\ C31_CurrentArgs

\* ------------------------------------------------------------ C32
\* The caller's acquire is abandoned in this step.
Abandons(t) == pc[t] = "waiting" /\ last' = <<t, "acquire", "TimeoutError">>

\* The callers whose acquire or release is working on holder h, or that hold
\* its connection.
Users(h) ==
  {t \in Tasks : \/ th[t] = h
                 \/ Holds(t) /\ cholder[tcon[t]] = h}

\* C32: an acquire abandoned while it waits on the empty queue dequeues no
\* holder and leaves the queue, the holders, their free signals and the
\* generation unchanged; afterwards no abandoned caller is registered as a
\* waiter, a holder leaves the queue only for the longest-waiting caller
\* that still waits or for a caller that arrives when nobody waits, and every
\* holder is either in the queue once or with exactly one caller.
C32_AbandonedWait ==
  /\ [][\A t \in Tasks :
          Abandons(t) =>
            /\ pc'[t] = "idle" /\ tcon'[t] = NoCon
            /\ UNCHANGED <<queue, nholders, hcon, hgen, hfree, generation,
                           cstate, cholder>>
            /\ \A u \in Tasks \ {t} : pc'[u] = pc[u]
       ]_vars
  /\ [](\A i \in 1..Len(getters) :
          /\ pc[getters[i]] = "waiting"
          /\ \A j \in 1..Len(getters) : getters[i] = getters[j] => i = j)
  /\ [](\A t \in Tasks : pc[t] = "waiting" => t \in Range(getters))
  /\ [][queue' # queue /\ Len(queue') < Len(queue) =>
          /\ queue' = Tail(queue)
          /\ \E t \in Tasks :
               /\ pc[t] \in {"idle", "waiting"}
               /\ IF pc'[t] = "holding"
                    THEN cholder'[tcon'[t]] = Head(queue)
                    ELSE th'[t] = Head(queue)
               /\ IF getters # <<>>
                    THEN t = Head(getters) /\ pc[t] = "waiting"
                    ELSE pc[t] = "idle"
       ]_vars
  /\ [](\A h \in 1..nholders : Count(queue, h) + Cardinality(Users(h)) = 1)

\* C32 witness: with every holder checked out and two callers waiting, one
\* of the two has given up; the other is still first in line.
C32_Witness ==
  \E t, u \in Tasks :
    /\ t # u
    /\ last = <<t, "acquire", "TimeoutError">>
    /\ pc[t] = "idle" /\ getters = <<u>> /\ pc[u] = "waiting"
    /\ queue = <<>> /\ nholders > 0
    /\ \A h \in 1..nholders : ~hfree[h]

\* ------------------------------------------------------------ C33
\* The on-acquire callback of the caller's acquire raises in this step.
OnAcquireRaises(t) ==
  pc[t] = "on_acquire" /\ last' = <<t, "acquire", "CallbackError">>

\* C33: when the on-acquire callback raises, the acquire fails with that
\* error and the holder still holds the same connection, not closed, which
\* it will hand out on its next acquire.
C33_ConnectionKept ==
  [][\A t \in Tasks :
       OnAcquireRaises(t) =>
         /\ pc'[t] = "idle" /\ tcon'[t] = NoCon
         /\ hcon'[th[t]] = targ[t]
         /\ cstate'[targ[t]] = "open"
    ]_vars

\* C33 amended: when the on-acquire callback raises, the acquire fails with
\* that error, the connection is closed and detached from its holder, and
\* the holder goes back to the queue without a connection; an acquire never
\* returns a closed connection, so the holder's next successful acquire hands
\* out a new one.
C33_ConnectionClosed ==
  [][\A t \in Tasks :
       /\ OnAcquireRaises(t) =>
            /\ pc'[t] = "idle" /\ tcon'[t] = NoCon
            /\ hcon[th[t]] = targ[t]
            /\ cstate'[targ[t]] = "closed" /\ cholder'[targ[t]] = NoHolder
            /\ hcon'[th[t]] = NoCon
            /\ queue' = Append(queue, th[t])
       /\ (pc[t] # "holding" /\ pc'[t] = "holding") =>
            /\ tcon'[t] # NoCon
            /\ cstate[tcon'[t]] # "closed" /\ cstate'[tcon'[t]] = "open"
    ]_vars

\* C33 witness: the only holder connected, its first on-acquire callback
\* raised, and it is back in the queue with no connection; the connection is
\* closed.
C33_Witness ==
  \E t \in Tasks :
    /\ last = <<t, "acquire", "CallbackError">>
    /\ nholders = 1 /\ ncons = 1
    /\ hgen[1] # NoGen /\ hcon[1] = NoCon
    /\ cstate[1] = "closed" /\ cholder[1] = NoHolder
    /\ queue = <<1>>

\* ------------------------------------------------------------ C34
\* The caller's Pool.release reaches Holder.release on a holder whose free
\* signal is set.
ReleasesFree(t) ==
  /\ last'[1] = t /\ last'[2] \in {"release", "release_again"}
  /\ LET c == IF last'[2] = "release" THEN tcon[t] ELSE tlast[t] IN
     /\ pc[t] \in {"idle", "holding"}
     /\ c # NoCon /\ cholder[c] # NoHolder /\ hfree[cholder[c]]

\* What a failed misuse leaves alone.
MisuseFrame ==
  UNCHANGED <<queue, nholders, hcon, hgen, hfree, cstate, cholder, ncons,
              generation, getters>>

\* C34: Holder.release on a holder whose free signal is set fails with
\* InternalClientError, enqueues nothing and changes no connection;
\* Holder.connect goes on to connect only on a holder without a connection,
\* and on a holder that has one it fails with InternalClientError, creates
\* no connection and changes neither the holder's connection nor its stamp.
C34_Misuse ==
  [][\A t \in Tasks :
       /\ ReleasesFree(t) =>
            (last'[3] = "InternalClientError" /\ MisuseFrame)
       /\ (pc[t] = "idle" /\ pc'[t] = "ensure_connect") =>
            (hcon[th'[t]] = NoCon /\ MisuseFrame)
       /\ last' = <<t, "connect", "InternalClientError">> =>
            (pc'[t] = "idle" /\ tcon'[t] = tcon[t] /\ MisuseFrame)
    ]_vars

\* C34 witness: Holder.connect was called on the only holder, which has a
\* live connection of the current generation, and failed.
C34_Witness ==
  \E t \in Tasks :
    /\ last = <<t, "connect", "InternalClientError">>
    /\ nholders = 1 /\ hcon[1] # NoCon
    /\ cstate[hcon[1]] = "open" /\ cholder[hcon[1]] = 1
    /\ hgen[1] = generation

\* ------------------------------------------------------------ C35
\* The on-release callback of the caller's release raises in this step.
OnReleaseRaises(t) ==
  pc[t] = "on_release" /\ last' = <<t, "release", "CallbackError">>

\* C35: when the on-release callback raises during the release of a live
\* connection of the current generation, the caller gets the error and the
\* holder is free and in the queue once; no holder is checked out without a
\* caller that holds or is releasing its connection, and free size is what
\* it was before the acquire.
C35_ReleaseCallbackError ==
  /\ [][\A t \in Tasks :
          OnReleaseRaises(t) =>
            /\ cstate[targ[t]] = "open" /\ hcon[th[t]] = targ[t]
            /\ hgen[th[t]] = generation /\ ~hfree[th[t]]
            /\ pc'[t] = "idle" /\ tcon'[t] = NoCon
            /\ hfree'[th[t]]
            /\ queue' = Append(queue, th[t])
            /\ Count(queue', th[t]) = 1
       ]_vars
  /\ [](\A h \in 1..nholders : ~hfree[h] => Users(h) # {})
  /\ []FreeSizeRestored

\* C35 witness: on a concurrency-1 pool the on-release callback raised; the
\* holder is back in the queue and free size is 1 again.
C35_Witness ==
  \E t \in Tasks :
    /\ last = <<t, "release", "CallbackError">>
    /\ concurrency = 1 /\ nholders = 1 /\ queue = <<1>> /\ hfree[1]
    /\ Quiescent /\ CheckedOut = {} /\ get_free_size = 1
====
